---- MODULE Spec2Model ----
(***************************************************************************)
(* A model of the n2o5 build executor: the build graph and its builder,    *)
(* the identity hashes, the freshness check stat_node, the per-task worker  *)
(* body run_build and the controller state machine of Executor.            *)
(*                                                                         *)
(* Conventions.  BuildId(i) and FileId(i) of the source are the 1-based    *)
(* index i+1 here.  A path, an executable, an argument or a callback name  *)
(* is a sequence of bytes.  A BuildHash is represented by the byte stream  *)
(* fed to the 128-bit hasher (the hasher itself is taken collision-free).  *)
(* An Option is a sequence: None is <<>> and Some(x) is <<x>>.             *)
(***************************************************************************)
EXTENDS Integers, Sequences, FiniteSets, TLC

\* ------------------------------------------------------------------------
\* Bounds of the model
\* ------------------------------------------------------------------------
MaxParallelism == 2
MaxRuns == 2
HashBits == 6
MaxCommandRuns == 4
MaxBuilderNodes == 2
MaxBuilderEdges == 3

None == <<>>

Some(x) == <<x>>

unwrap(opt) == opt[1]

\* ------------------------------------------------------------------------
\* BuildStatusKind  (src/src/exec.rs:34-64)
\* ------------------------------------------------------------------------
Fresh == "Fresh"
Started == "Started"
UpToDate == "UpToDate"
Failed == "Failed"
Succeeded == "Succeeded"
Skipped == "Skipped"

BuildStatusKind == {Fresh, Started, UpToDate, Failed, Succeeded, Skipped}

is_finished(kind) == kind \in {UpToDate, Failed, Succeeded, Skipped}

is_successful(kind) == kind \in {UpToDate, Succeeded}

\* ------------------------------------------------------------------------
\* Generic helpers on sequences
\* ------------------------------------------------------------------------
Range(s) == {s[i] : i \in 1..Len(s)}

IndexOf(s, x) == IF \E i \in 1..Len(s) : s[i] = x
                 THEN CHOOSE i \in 1..Len(s) : s[i] = x
                 ELSE 0

RECURSIVE Concat(_)
Concat(ss) == IF ss = <<>> THEN <<>> ELSE Head(ss) \o Concat(Tail(ss))

\* ------------------------------------------------------------------------
\* The build graph and its builder  (src/src/graph.rs)
\* ------------------------------------------------------------------------
EmptyGraph == [nodes |-> <<>>, files |-> <<>>, edges |-> <<>>]

\* GraphBuilder::add_file: intern a path, same path gives the same id
add_file_table(files, path) ==
    IF IndexOf(files, path) # 0 THEN files ELSE Append(files, path)

lookup_fileid(g, path) == IndexOf(g.files, path)

lookup_path(g, file_id) == g.files[file_id]

lookup_build(g, build_id) == g.nodes[build_id]

RECURSIVE add_files(_, _)
add_files(files, paths) ==
    IF paths = <<>> THEN files
    ELSE add_files(add_file_table(files, Head(paths)), Tail(paths))

\* GraphBuilder::add_build: append-only
add_build(g, node) == [g EXCEPT !.nodes = Append(@, node)]

\* GraphBuilder::add_build_dep: DiGraphMap::add_edge keeps one edge per pair
add_build_dep(g, dependent, dependency) ==
    IF IndexOf(g.edges, <<dependent, dependency>>) # 0 THEN g
    ELSE [g EXCEPT !.edges = Append(@, <<dependent, dependency>>)]

\* IndexSet::insert: appends unless present
IndexSetInsert(set, x) == IF IndexOf(set, x) # 0 THEN set ELSE Append(set, x)

\* a faulty variant of build_dependencies: no edge is reported
build_dependencies_None(g, build_id) == <<>>

\* neighbors_directed(Outgoing): the dependencies, in edge insertion order
build_dependencies(g, build_id) ==
    SelectSeq(g.edges, LAMBDA e : e[1] = build_id)

\* neighbors_directed(Incoming): the dependents, in edge insertion order
\* a faulty variant of build_dependents: the consumer of every edge, whatever
\* its dependency
build_dependents_AnyEdge(g, build_id) == g.edges

build_dependents(g, build_id) ==
    SelectSeq(g.edges, LAMBDA e : e[2] = build_id)

DepsOf(g, b) == {e[2] : e \in {x \in Range(g.edges) : x[1] = b}}

DependentsOf(g, b) == {e[1] : e \in {x \in Range(g.edges) : x[2] = b}}

BuildIds(g) == 1..Len(g.nodes)

\* nodes reachable from the set s along outgoing edges (consumer -> dependency)
RECURSIVE ReachOut(_, _)
ReachOut(g, s) ==
    LET n == s \cup UNION {DepsOf(g, b) : b \in s}
    IN IF n = s THEN s ELSE ReachOut(g, n)

\* nodes reachable from the set s along incoming edges (dependency -> consumer)
RECURSIVE ReachIn(_, _)
ReachIn(g, s) ==
    LET n == s \cup UNION {DependentsOf(g, b) : b \in s}
    IN IF n = s THEN s ELSE ReachIn(g, n)

\* the nodes of the DiGraphMap, in the order add_edge met them: add_edge
\* inserts both endpoints, add_build inserts none
RECURSIVE node_identifiers(_)
node_identifiers(edges) ==
    IF edges = <<>> THEN <<>>
    ELSE LET e == edges[Len(edges)]
             before == node_identifiers(SubSeq(edges, 1, Len(edges) - 1))
         IN IndexSetInsert(IndexSetInsert(before, e[1]), e[2])

\* petgraph::visit::depth_first_search as is_cyclic_directed drives it: a node
\* is discovered on entry and finished on exit; an edge to a node that is
\* discovered and not finished is a BackEdge, which stops the search
RECURSIVE dfs_visitor(_, _, _)
RECURSIVE dfs_neighbors(_, _, _)
dfs_visitor(g, u, st) ==
    LET entered == [st EXCEPT !.discovered = @ \cup {u}]
        out == build_dependencies(g, u)
        after == dfs_neighbors(g, [i \in 1..Len(out) |-> out[i][2]], entered)
    IN IF after.back_edge THEN after
       ELSE [after EXCEPT !.finished = @ \cup {u}]

dfs_neighbors(g, vs, st) ==
    IF vs = <<>> \/ st.back_edge THEN st
    ELSE LET v == Head(vs)
         IN IF v \notin st.discovered
            THEN dfs_neighbors(g, Tail(vs), dfs_visitor(g, v, st))
            ELSE IF v \notin st.finished
                 THEN [st EXCEPT !.back_edge = TRUE]
                 ELSE dfs_neighbors(g, Tail(vs), st)

RECURSIVE depth_first_search(_, _, _)
depth_first_search(g, starts, st) ==
    IF starts = <<>> \/ st.back_edge THEN st
    ELSE IF Head(starts) \in st.discovered
         THEN depth_first_search(g, Tail(starts), st)
         ELSE depth_first_search(g, Tail(starts), dfs_visitor(g, Head(starts), st))

\* a faulty variant of is_cyclic_directed: a self-edge is not seen as a cycle
is_cyclic_directed_NoSelfEdge(g) ==
    LET h == [g EXCEPT !.edges = SelectSeq(@, LAMBDA e : e[1] # e[2])]
    IN depth_first_search(h, node_identifiers(h.edges),
                          [discovered |-> {}, finished |-> {},
                           back_edge |-> FALSE]).back_edge

\* petgraph::algo::is_cyclic_directed
is_cyclic_directed(g) ==
    depth_first_search(g, node_identifiers(g.edges),
                       [discovered |-> {}, finished |-> {},
                        back_edge |-> FALSE]).back_edge

\* GraphBuilder::build: Err(BuildError::ContainsCycle) or Ok(graph)
builder_build(g) == IF is_cyclic_directed(g) THEN "ContainsCycle" ELSE "Ok"

\* ------------------------------------------------------------------------
\* Identity hashing  (src/src/graph/hash.rs)
\* ------------------------------------------------------------------------
TagSubcmd == <<115, 117, 98, 99, 109, 100, 0>>
TagCallback == <<99, 97, 108, 108, 98, 97, 99, 107, 0>>
TagPhony == <<112, 104, 111, 110, 121, 0>>
TagOut == <<111, 117, 116, 0>>

RECURSIVE ZeroTerminated(_)
ZeroTerminated(strs) ==
    IF strs = <<>> THEN <<>>
    ELSE Head(strs) \o <<0>> \o ZeroTerminated(Tail(strs))

PathsOf(g, file_ids) == [i \in 1..Len(file_ids) |-> lookup_path(g, file_ids[i])]

CommandBytes(command) ==
    CASE command.kind = "SubCommand" ->
            TagSubcmd \o command.executable \o <<0>> \o ZeroTerminated(command.args)
      [] command.kind = "Callback" -> TagCallback \o command.name
      [] OTHER -> TagPhony

\* a faulty variant of hash_build: the outputs are folded in without order
hash_build_Unordered(node, g) ==
    CommandBytes(node.command) \o TagOut
        \o <<Cardinality(Range(PathsOf(g, node.outs)))>>

hash_build(node, g) ==
    CommandBytes(node.command) \o TagOut \o ZeroTerminated(PathsOf(g, node.outs))

Pow2(n) == 2 ^ n

RECURSIVE Xor(_, _)
Xor(a, b) ==
    IF a = 0 THEN b
    ELSE IF b = 0 THEN a
    ELSE (((a % 2) + (b % 2)) % 2) + 2 * Xor(a \div 2, b \div 2)

\* blake3::hash of a path, cut to two words of HashBits bits
RECURSIVE Blake3Word(_, _, _)
Blake3Word(bytes, mult, h) ==
    IF bytes = <<>> THEN h
    ELSE Blake3Word(Tail(bytes), mult, (h * mult + Head(bytes) + 1) % Pow2(HashBits))

Blake3(bytes) == [lo |-> Blake3Word(bytes, 31, 7), hi |-> Blake3Word(bytes, 17, 3)]

AccDefault == [sum_lo |-> 0, sum_hi |-> 0, xor_lo |-> 0, xor_hi |-> 0, cnt |-> 0]

\* a faulty variant of accumulate: the sums depend on the order of arrival
accumulate_Ordered(acc, h) ==
    [sum_lo |-> (3 * acc.sum_lo + h.lo) % Pow2(HashBits),
     sum_hi |-> (3 * acc.sum_hi + h.hi) % Pow2(HashBits),
     xor_lo |-> Xor(acc.xor_lo, h.lo),
     xor_hi |-> Xor(acc.xor_hi, h.hi),
     cnt |-> acc.cnt + 1]

accumulate(acc, h) ==
    [sum_lo |-> (acc.sum_lo + h.lo) % Pow2(HashBits),
     sum_hi |-> (acc.sum_hi + h.hi) % Pow2(HashBits),
     xor_lo |-> Xor(acc.xor_lo, h.lo),
     xor_hi |-> Xor(acc.xor_hi, h.hi),
     cnt |-> acc.cnt + 1]

finalize(acc) == <<acc.sum_lo, acc.sum_hi, acc.xor_lo, acc.xor_hi, acc.cnt>>

RECURSIVE AccumulatePaths(_, _)
AccumulatePaths(acc, paths) ==
    IF paths = <<>> THEN acc
    ELSE AccumulatePaths(
             CHOOSE next \in {accumulate(a, h) :
                                 a \in {acc}, h \in {Blake3(Head(paths))}} : TRUE,
             Tail(paths))

\* the declared outputs of the direct dependencies, in iteration order
DependencyOutputs(g, build_id) ==
    LET deps == build_dependencies(g, build_id)
    IN Concat([i \in 1..Len(deps) |-> PathsOf(g, lookup_build(g, deps[i][2]).outs)])

hash_input_set(build_id, g) ==
    LET build == lookup_build(g, build_id)
        fixed == AccumulatePaths(AccDefault, PathsOf(g, build.ins))
    IN finalize(AccumulatePaths(fixed, DependencyOutputs(g, build_id)))

\* ------------------------------------------------------------------------
\* The world  (src/src/world.rs, src/tests/mock.rs)
\*   world.files : path -> modification epoch, for the paths that exist
\*   world.epoch : the mocked clock, increased by every touch
\*   world.unreadable : paths whose metadata cannot be read
\* ------------------------------------------------------------------------
exists(world, path) == path \in DOMAIN world.files

\* World::mtime: Ok(epoch) as Some(epoch), Err as None
mtime(world, path) ==
    IF path \in world.unreadable \/ path \notin DOMAIN world.files
    THEN None
    ELSE Some(world.files[path])

now(world) == world.epoch

\* MockWorld::touch_file
touch_file(world, path) ==
    LET e == world.epoch + 1
    IN [world EXCEPT !.epoch = e,
                     !.files = [p \in DOMAIN world.files \cup {path} |->
                                   IF p = path THEN e ELSE world.files[p]]]

\* MockWorld::remove_file
remove_file(world, path) ==
    [world EXCEPT !.files = [p \in DOMAIN world.files \ {path} |-> world.files[p]]]

RECURSIVE touch_all(_, _)
touch_all(world, paths) ==
    IF paths = <<>> THEN world
    ELSE touch_all(touch_file(world, Head(paths)), Tail(paths))

\* the statuses World::execute hands back to run_build without a panic
ExecuteResults == {Succeeded, Failed, UpToDate, "Err"}

\* what a command can have done to its declared outputs when it reports
\* success: written them, or left the filesystem alone
ExecuteWrites == BOOLEAN

\* World::execute: the command runs; a command that succeeds and writes has
\* written all its declared outputs
execute(world, g, id, result, writes) ==
    IF result \in {Succeeded, UpToDate} /\ writes
    THEN touch_all(world, PathsOf(g, lookup_build(g, id).outs))
    ELSE world

\* ------------------------------------------------------------------------
\* The cache  (src/src/db.rs, src/src/db/in_memory.rs)
\*   db.build_info : BuildHash -> BuildInfo,  db.file_info : path -> FileInfo
\* ------------------------------------------------------------------------
EmptyDb == [build_info |-> <<>>, file_info |-> <<>>]

MapSet(m, k, v) == [x \in DOMAIN m \cup {k} |-> IF x = k THEN v ELSE m[x]]

MapRemove(m, k) == [x \in DOMAIN m \ {k} |-> m[x]]

get_build_info(db, hash) ==
    IF hash \in DOMAIN db.build_info THEN Some(db.build_info[hash]) ELSE None

get_file_info(db, path) ==
    IF path \in DOMAIN db.file_info THEN Some(db.file_info[path]) ELSE None

set_build_info(db, hash, info) == [db EXCEPT !.build_info = MapSet(@, hash, info)]

set_file_info(db, path, info) == [db EXCEPT !.file_info = MapSet(@, path, info)]

db_invalidate_build(db, hash) == [db EXCEPT !.build_info = MapRemove(@, hash)]

invalidate_file(db, path) == [db EXCEPT !.file_info = MapRemove(@, path)]

\* ------------------------------------------------------------------------
\* stat_node  (src/src/exec.rs:467-589)
\* ------------------------------------------------------------------------
NodeUpToDate == [kind |-> "UpToDate"]
NodeOutdated == [kind |-> "Outdated"]
NodeMissing(file) == [kind |-> "Missing", file |-> file]
NodeCannotRead(path) == [kind |-> "CannotRead", path |-> path]
NodeContinue == [kind |-> "Continue"]

\* a faulty variant of InputOutdated: only a missing watermark counts
InputOutdated_NoWatermark(mtime_should_before, m) == mtime_should_before = None

\* an input is newer than the watermark, or there is no watermark
InputOutdated(mtime_should_before, m) ==
    mtime_should_before = None \/ unwrap(mtime_should_before) < m

\* the loop over the declared inputs
RECURSIVE StatInputs(_, _, _, _)
StatInputs(world, g, ins, mtime_should_before) ==
    IF ins = <<>> THEN NodeContinue
    ELSE LET file == Head(ins)
             path == lookup_path(g, file)
         IN IF ~exists(world, path) THEN NodeMissing(file)
            ELSE IF mtime(world, path) = None THEN NodeCannotRead(path)
            ELSE IF InputOutdated(mtime_should_before, unwrap(mtime(world, path)))
                 THEN NodeOutdated
            ELSE StatInputs(world, g, Tail(ins), mtime_should_before)

\* a faulty variant of OutputMissing: the existence of an output is not looked at
OutputMissing_Never(world, path) == FALSE

\* `if !world.exists(path)` of the output loop
OutputMissing(world, path) == ~exists(world, path)

\* a faulty variant of GeneratedByOther: any FileRecord of the path will do
GeneratedByOther_Never(info, build_hash) == FALSE

\* `if info.generated_by != build_hash`
GeneratedByOther(info, build_hash) == info.generated_by # build_hash

\* the loop over the declared outputs
RECURSIVE StatOutputs(_, _, _, _, _)
StatOutputs(db, world, g, outs, build_hash) ==
    IF outs = <<>> THEN NodeContinue
    ELSE LET path == lookup_path(g, Head(outs))
             info == get_file_info(db, path)
         IN IF OutputMissing(world, path) THEN NodeOutdated
            ELSE IF mtime(world, path) = None THEN NodeCannotRead(path)
            ELSE IF info = None THEN NodeOutdated
            ELSE IF GeneratedByOther(unwrap(info), build_hash) THEN NodeOutdated
            ELSE IF unwrap(mtime(world, path)) > unwrap(info).last_seen THEN NodeOutdated
            ELSE StatOutputs(db, world, g, Tail(outs), build_hash)

\* the loop over the additional inputs of the record
RECURSIVE StatAdditional(_, _, _)
StatAdditional(world, files, mtime_should_before) ==
    IF files = <<>> THEN NodeContinue
    ELSE LET file == Head(files)
         IN IF ~exists(world, file) THEN NodeOutdated
            ELSE IF mtime(world, file) = None THEN NodeCannotRead(file)
            ELSE IF unwrap(mtime(world, file)) > mtime_should_before THEN NodeOutdated
            ELSE StatAdditional(world, Tail(files), mtime_should_before)

\* a faulty variant of InputSetChanged: the digest is not looked at
InputSetChanged_Never(recorded, input_hash) == FALSE

\* `if build_info.input_set_digest != input_hash`
InputSetChanged(recorded, input_hash) == recorded # input_hash

stat_node(db, world, g, node, build_hash, input_hash) ==
    LET build_info == get_build_info(db, build_hash)
        watermark == IF build_info = None THEN None
                     ELSE Some(unwrap(build_info).last_start)
        r_in == StatInputs(world, g, node.ins, watermark)
    IN IF r_in.kind # "Continue" THEN r_in
       ELSE IF build_info = None THEN NodeOutdated
       ELSE LET info == unwrap(build_info)
                r_out == StatOutputs(db, world, g, node.outs, build_hash)
            IN IF r_out.kind # "Continue" THEN r_out
               ELSE IF InputSetChanged(info.input_set_digest, input_hash)
                    THEN NodeOutdated
               ELSE LET r_add == StatAdditional(world, info.additional_inputs,
                                                info.last_start)
                    IN IF r_add.kind # "Continue" THEN r_add ELSE NodeUpToDate

\* ------------------------------------------------------------------------
\* write_build, invalidate_build  (src/src/exec.rs:592-639)
\* ------------------------------------------------------------------------
RECURSIVE SetFileInfos(_, _, _)
SetFileInfos(db, paths, file_info) ==
    IF paths = <<>> THEN db
    ELSE SetFileInfos(set_file_info(db, Head(paths), file_info), Tail(paths), file_info)

RECURSIVE InvalidateFiles(_, _)
InvalidateFiles(db, paths) ==
    IF paths = <<>> THEN db
    ELSE InvalidateFiles(invalidate_file(db, Head(paths)), Tail(paths))

\* a faulty variant of write_build: the ActionRecord is stored, the FileRecords
\* of the outputs are not
write_build_NoFiles(db, g, world, build, build_hash, input_hash) ==
    set_build_info(db, build_hash,
                   [last_start |-> now(world),
                    last_end |-> None,
                    input_set_digest |-> input_hash,
                    additional_inputs |-> <<>>])

write_build(db, g, world, build, build_hash, input_hash) ==
    LET build_info == [last_start |-> now(world),
                       last_end |-> None,
                       input_set_digest |-> input_hash,
                       additional_inputs |-> <<>>]
        file_info == [last_seen |-> now(world), generated_by |-> build_hash]
    IN SetFileInfos(set_build_info(db, build_hash, build_info),
                    PathsOf(g, build.outs), file_info)

\* a faulty variant of invalidate_build: the FileRecords of the outputs stay
\* a faulty variant of invalidate_build: the record of every file of the
\* graph is dropped, not only those of the declared outputs
invalidate_build_AllFiles(db, g, build, build_hash) ==
    InvalidateFiles(db_invalidate_build(db, build_hash), g.files)

invalidate_build_KeepFiles(db, g, build, build_hash) ==
    db_invalidate_build(db, build_hash)

invalidate_build(db, g, build, build_hash) ==
    InvalidateFiles(db_invalidate_build(db, build_hash), PathsOf(g, build.outs))

\* ------------------------------------------------------------------------
\* State
\* ------------------------------------------------------------------------
VARIABLES
    graph,          \* the frozen BuildGraph handed to the executor
    parallelism,    \* ExecConfig.parallelism
    world,          \* the World
    db,             \* the ExecDb
    pending,        \* Executor.pending (IndexSet, in insertion order)
    builds,         \* Executor.builds : BuildId -> BuildStatus
    running,        \* Executor.running
    finished,       \* Executor.finished
    failed,         \* Executor.failed
    build_started,  \* Executor.build_started
    pc,             \* position of the controller thread
    run_result,     \* what Executor::run returned: "none", "Ok" or "Err"
    workers,        \* BuildId -> the task spawned for it: [pc, result]
    chan,           \* the mpsc channel of BuildNodeResult
    exec_log,       \* the builds World::execute was invoked for, this run
    run_no,         \* the number of the executor being observed
    wanted,         \* the ids run_graph passes to want() before each run
    mutated,        \* whether the world was changed since the previous run
    prev_builds,    \* BuildId -> kind when the previous run returned
    prev_result,    \* run_result of the previous run
    start_db,       \* the cache as it was when the current run began
    start_world,    \* the world as it was when the current run began
    progress        \* the calls the Progress reporter has received, in order

vars == <<graph, parallelism, world, db, pending, builds, running, finished,
          failed, build_started, pc, run_result, workers, chan, exec_log,
          run_no, wanted, mutated, prev_builds, prev_result, start_db,
          start_world, progress>>

exec_vars == <<pending, builds, running, finished, failed, build_started>>

env_vars == <<graph, parallelism, run_no, wanted, mutated, prev_builds,
              prev_result, start_db, start_world>>

\* ------------------------------------------------------------------------
\* Executor::want, want_internal  (src/src/exec.rs:196-251)
\* ------------------------------------------------------------------------
\* a faulty variant of IsLeaf: every newly tracked node is queued
IsLeaf_Always(children_count) == TRUE

\* `if children_count == 0`: a leaf node, added to the starts
IsLeaf(children_count) == children_count = 0

\* the builds map never holds the popped node (contains_key was just checked),
\* so HashMap::insert returns None and the counters are left alone
RECURSIVE want_internal(_, _, _, _)
want_internal(g, dfs_stack, bs, pend) ==
    IF dfs_stack = <<>> THEN [builds |-> bs, pending |-> pend]
    ELSE LET build == dfs_stack[Len(dfs_stack)]
             rest == SubSeq(dfs_stack, 1, Len(dfs_stack) - 1)
         IN IF build \in DOMAIN bs THEN want_internal(g, rest, bs, pend)
            ELSE LET deps == build_dependencies(g, build)
                     children_count == Len(deps)
                 IN want_internal(
                        g,
                        rest \o [i \in 1..children_count |-> deps[i][2]],
                        MapSet(bs, build, [kind |-> Fresh,
                                           pending_inputs |-> children_count]),
                        IF IsLeaf(children_count) THEN IndexSetInsert(pend, build)
                        ELSE pend)

\* the value want_internal returns: affected_nodes, one for every node it
\* newly tracks
RECURSIVE affected_nodes(_, _, _)
affected_nodes(g, dfs_stack, bs) ==
    IF dfs_stack = <<>> THEN 0
    ELSE LET build == dfs_stack[Len(dfs_stack)]
             rest == SubSeq(dfs_stack, 1, Len(dfs_stack) - 1)
         IN IF build \in DOMAIN bs THEN affected_nodes(g, rest, bs)
            ELSE LET deps == build_dependencies(g, build)
                     children_count == Len(deps)
                 IN 1 + affected_nodes(
                            g,
                            rest \o [i \in 1..children_count |-> deps[i][2]],
                            MapSet(bs, build, [kind |-> Fresh,
                                               pending_inputs |-> children_count]))

\* the ids in increasing order
RECURSIVE SortedSeq(_)
SortedSeq(S) ==
    IF S = {} THEN <<>>
    ELSE LET m == CHOOSE x \in S : \A y \in S : x <= y
         IN <<m>> \o SortedSeq(S \ {m})

\* a faulty variant of WantAllowed: want() goes on after run()
WantAllowed_Always(started) == TRUE

\* `if self.build_started { panic!(...) }`
WantAllowed(started) == ~started

\* the id lists a caller passes to want()
WantArgs(g) ==
    {<<b>> : b \in BuildIds(g)}
        \cup {<<a, b>> : a \in BuildIds(g), b \in BuildIds(g)}

\* want(ids); `wanted` keeps the ids requested so far
Want(ids) ==
    /\ pc \in {"idle", "returned"}
    /\ IF ~WantAllowed(build_started)
       THEN /\ pc' = "want_panicked"
            /\ UNCHANGED <<pending, builds, wanted>>
       ELSE LET r == want_internal(graph, ids, builds, pending)
            IN /\ builds' = r.builds
               /\ pending' = r.pending
               /\ wanted' = SortedSeq(Range(wanted) \cup Range(ids))
               /\ pc' = pc
    /\ UNCHANGED <<graph, parallelism, world, db, running, finished, failed,
                   build_started, run_result, workers, chan, exec_log, run_no,
                   mutated, prev_builds, prev_result, start_db, start_world,
                   progress>>

\* ------------------------------------------------------------------------
\* Executor::run, run_inner, start_build  (src/src/exec.rs:255-329, 426-447)
\* ------------------------------------------------------------------------
Worker(p, r) == [pc |-> p, result |-> r]

\* a faulty variant of IndexSetPop: the value inserted first is removed
IndexSetPop_First(s) == [value |-> Head(s), rest |-> Tail(s)]

\* a faulty variant of IndexSet::pop: the last value is handed out and stays
\* in the set
IndexSetPop_Peek(s) == [value |-> s[Len(s)], rest |-> s]

\* IndexSet::pop of `self.pending.pop()`: the last value is removed, the order
\* of the others is kept
IndexSetPop(s) == [value |-> s[Len(s)], rest |-> SubSeq(s, 1, Len(s) - 1)]

\* a faulty variant of status: `started` leaves out the finished builds
status_RunningOnly(bs, run, fin, fail) ==
    [total |-> Cardinality(DOMAIN bs), started |-> run, done |-> fin,
     failed |-> fail]

\* Executor::status
status(bs, run, fin, fail) ==
    [total |-> Cardinality(DOMAIN bs), started |-> run + fin, done |-> fin,
     failed |-> fail]

\* run(): build_started is set, the progress is prepared, the scope is entered
RunBegin ==
    /\ pc = "idle"
    /\ build_started' = TRUE
    /\ progress' = Append(progress, [call |-> "prepare",
                                     max_threads |-> Some(parallelism)])
    /\ pc' = "loop"
    /\ UNCHANGED <<graph, parallelism, world, db, pending, builds, running,
                   finished, failed, run_result, workers, chan, exec_log,
                   run_no, wanted, mutated, prev_builds, prev_result,
                   start_db, start_world>>

\* one turn of `while let Some(val) = self.pending.pop() { start_build }`
StartBuild ==
    /\ pc = "loop"
    /\ pending # <<>>
    /\ LET node == IndexSetPop(pending).value
       IN /\ pending' = IndexSetPop(pending).rest
          /\ progress' = Append(progress,
                                [call |-> "build_started", id |-> node,
                                 status |-> status(builds, running, finished,
                                                   failed)])
          /\ builds' = [builds EXCEPT ![node].kind = Started]
          /\ running' = running + 1
          /\ workers' = [workers EXCEPT ![node] = Worker("queued", "none")]
    /\ UNCHANGED <<graph, parallelism, world, db, finished, failed,
                   build_started, pc, run_result, chan, exec_log, run_no,
                   wanted, mutated, prev_builds, prev_result,
                   start_db, start_world>>

\* a faulty variant of LoopExit: the loop goes on until nothing is in flight
LoopExit_Drain(fin, total, fail) == fin = total \/ (fail > 0 /\ running = 0)

\* a faulty variant of LoopExit: the loop goes on after a failure
LoopExit_AllFinished(fin, total, fail) == fin = total

\* `if self.finished == self.builds.len() || self.failed > 0 { break }`
LoopExit(fin, total, fail) == fin = total \/ fail > 0

\* the rest of the loop body once pending is drained, up to rx.recv()
LoopCheck ==
    /\ pc = "loop"
    /\ pending = <<>>
    /\ IF LoopExit(finished, Cardinality(DOMAIN builds), failed)
       THEN /\ pc' = "join_ok"
            /\ UNCHANGED run_result
       ELSE IF running = 0
       THEN /\ pc' = "panicked"
            /\ UNCHANGED run_result
       ELSE /\ pc' = "recv"
            /\ UNCHANGED run_result
    /\ UNCHANGED <<graph, parallelism, world, db, pending, builds, running,
                   finished, failed, build_started, workers, chan, exec_log,
                   run_no, wanted, mutated, prev_builds, prev_result,
                   start_db, start_world, progress>>

\* ------------------------------------------------------------------------
\* Executor::build_finished  (src/src/exec.rs:331-415)
\* ------------------------------------------------------------------------
\* a faulty variant of ReadyToStart: a consumer is queued one completion early
\* and once more at zero
ReadyToStart_AtMostOne(pending_inputs) == pending_inputs <= 1

\* a faulty variant of ReadyToStart: a consumer is never queued
ReadyToStart_Never(pending_inputs) == FALSE

\* a faulty variant of ReadyToStart: a consumer is queued as soon as any one
\* of its dependencies succeeds
ReadyToStart_Eager(pending_inputs) == TRUE

\* `if dep.pending_inputs == 0 { self.pending.insert(node) }`
ReadyToStart(pending_inputs) == pending_inputs = 0

\* a faulty variant of SuccessPath: a Failed completion takes the success arm
SuccessPath_FailedToo(stat) == stat \in {Succeeded, UpToDate, Failed}

\* the match arm taken for a status: Succeeded | UpToDate against Failed | Skipped
SuccessPath(stat) == stat \in {Succeeded, UpToDate}

\* a faulty variant of SkipGuard: the skip loop overwrites finished nodes
SkipGuard_Never(kind) == FALSE

\* `if dep.kind.is_finished() { continue }` of the skip loop
SkipGuard(kind) == is_finished(kind)

\* the nodes Dfs::new(&graph, id).iter(&graph).skip(1) yields: Dfs follows
\* IntoNeighbors, which on a directed GraphMap is the outgoing edges
SkipTargets(g, id) == ReachOut(g, {id}) \ {id}

\* the loop over build_dependents(id) of the success arm
RECURSIVE NotifyDependents(_, _, _, _)
NotifyDependents(dependents, bs, pend, panicked) ==
    IF dependents = <<>> \/ panicked
    THEN [builds |-> bs, pending |-> pend, panicked |-> panicked]
    ELSE LET node == Head(dependents)[1]
         IN IF node \notin DOMAIN bs
            THEN NotifyDependents(Tail(dependents), bs, pend, FALSE)
            ELSE IF is_finished(bs[node].kind)
            THEN NotifyDependents(Tail(dependents), bs, pend,
                                  is_successful(bs[node].kind))
            ELSE LET left == bs[node].pending_inputs - 1
                 IN NotifyDependents(
                        Tail(dependents),
                        [bs EXCEPT ![node].pending_inputs = left],
                        IF ReadyToStart(left) THEN IndexSetInsert(pend, node)
                        ELSE pend,
                        FALSE)

\* the tracked, unfinished nodes the skip loop marks
SkippedBy(g, id, bs) ==
    {n \in SkipTargets(g, id) \cap DOMAIN bs : ~SkipGuard(bs[n].kind)}

\* rx.recv() and build_finished(msg)
BuildFinished ==
    /\ pc = "recv"
    /\ chan # <<>>
    /\ LET msg == Head(chan)
           id == msg.id
           stat == msg.result
       IN /\ chan' = Tail(chan)
          /\ IF stat = "Err"
             THEN /\ pc' = "join_err"
                  /\ UNCHANGED <<pending, builds, running, finished, failed,
                                 run_result, progress>>
             ELSE IF ~is_finished(stat) \/ is_finished(builds[id].kind)
             THEN /\ pc' = "panicked"
                  /\ UNCHANGED <<pending, builds, running, finished, failed,
                                 run_result, progress>>
             ELSE IF SuccessPath(stat)
             THEN LET r == NotifyDependents(build_dependents(graph, id),
                                            [builds EXCEPT ![id].kind = stat],
                                            pending, FALSE)
                  IN /\ builds' = r.builds
                     /\ pending' = r.pending
                     /\ running' = running - 1
                     /\ finished' = finished + 1
                     /\ pc' = IF r.panicked THEN "panicked" ELSE "loop"
                     /\ progress' =
                            IF r.panicked THEN progress
                            ELSE Append(progress,
                                        [call |-> "build_finished", id |-> id,
                                         success |-> is_successful(stat),
                                         status |-> status(builds', running',
                                                           finished', failed)])
                     /\ UNCHANGED <<failed, run_result>>
             ELSE LET bs == [builds EXCEPT ![id].kind = stat]
                      skipped == SkippedBy(graph, id, bs)
                  IN /\ builds' = [n \in DOMAIN bs |->
                                     IF n \in skipped
                                     THEN [bs[n] EXCEPT !.kind = Skipped]
                                     ELSE bs[n]]
                     /\ running' = running - 1
                     /\ finished' = finished + 1 + Cardinality(skipped)
                     /\ failed' = failed + 1 + Cardinality(skipped)
                     /\ pc' = "loop"
                     /\ progress' =
                            Append(progress,
                                   [call |-> "build_finished", id |-> id,
                                    success |-> is_successful(stat),
                                    status |-> status(builds', running',
                                                      finished', failed')])
                     /\ UNCHANGED <<pending, run_result>>
    /\ UNCHANGED <<graph, parallelism, world, db, build_started, workers,
                   exec_log, run_no, wanted, mutated, prev_builds, prev_result,
                   start_db, start_world>>

\* a faulty variant of TasksInFlight: the scope does not wait for its tasks
TasksInFlight_None == {}

\* in_place_scope returns once every spawned task has completed; then the
\* receiver is dropped and run() returns
TasksInFlight == {b \in DOMAIN workers : workers[b].pc \notin {"none", "done"}}

\* a faulty variant of RunValue: a failed action makes run() return an error
RunValue_FailIsErr(inner, fail) == IF fail > 0 THEN "Err" ELSE inner

\* a faulty variant of RunValue: the error of run_inner is swallowed
RunValue_AlwaysOk(inner, fail) == "Ok"

\* what run() hands to its caller: the `?` passes on the error of run_inner,
\* and everything else ends in Ok(())
RunValue(inner, fail) == inner

RunReturn ==
    /\ pc \in {"join_ok", "join_err"}
    /\ TasksInFlight = {}
    /\ pc' = "returned"
    /\ run_result' = RunValue(IF pc = "join_ok" THEN "Ok" ELSE "Err", failed)
    /\ progress' = IF pc = "join_ok" THEN Append(progress, [call |-> "finish"])
                   ELSE progress
    /\ chan' = <<>>
    /\ UNCHANGED <<graph, parallelism, world, db, pending, builds, running,
                   finished, failed, build_started, workers, exec_log, run_no,
                   wanted, mutated, prev_builds, prev_result,
                   start_db, start_world>>

\* ------------------------------------------------------------------------
\* run_build, the body of a worker task  (src/src/exec.rs:642-699)
\* ------------------------------------------------------------------------
\* the tasks that occupy a thread of the pool
ActiveTasks == {b \in DOMAIN workers : workers[b].pc \in {"execute", "commit", "send"}}

\* a faulty variant of PoolHasThread: every spawned task gets a thread at once
PoolHasThread_Unbounded(active, threads) == TRUE

\* a pool built with num_threads(parallelism) runs a spawned task only on a
\* thread that is not running another one
PoolHasThread(active, threads) == active < threads

\* a faulty variant of StatResult: an up-to-date action is run all the same
StatResult_UpToDateRuns(node_stat) ==
    CASE node_stat.kind = "CannotRead" -> "Err"
      [] node_stat.kind = "Missing" -> Failed
      [] OTHER -> "Outdated"

\* the result run_build derives from stat_node when it does not execute
StatResult(node_stat) ==
    CASE node_stat.kind = "UpToDate" -> UpToDate
      [] node_stat.kind = "CannotRead" -> "Err"
      [] node_stat.kind = "Missing" -> Failed
      [] OTHER -> "Outdated"

\* a pool thread takes the task: hash_build, hash_input_set, stat_node
WorkerStat(id) ==
    /\ workers[id].pc = "queued"
    /\ PoolHasThread(Cardinality(ActiveTasks), parallelism)
    /\ LET build == lookup_build(graph, id)
           r == StatResult(stat_node(db, world, graph, build,
                                     hash_build(build, graph),
                                     hash_input_set(id, graph)))
       IN workers' = [workers EXCEPT ![id] =
                         IF r = "Outdated" THEN Worker("execute", "none")
                         ELSE Worker("send", r)]
    /\ UNCHANGED <<world, db, chan, exec_log, pc, run_result>>
    /\ UNCHANGED exec_vars
    /\ UNCHANGED env_vars
    /\ UNCHANGED progress

\* state.world.execute(state.user_state, graph, id)
WorkerExecute(id, res, writes) ==
    /\ workers[id].pc = "execute"
    /\ world' = execute(world, graph, id, res, writes)
    /\ exec_log' = Append(exec_log, id)
    /\ workers' = [workers EXCEPT ![id] = Worker("commit", res)]
    /\ UNCHANGED <<db, chan, pc, run_result>>
    /\ UNCHANGED exec_vars
    /\ UNCHANGED env_vars
    /\ UNCHANGED progress

\* a faulty variant of CommitsRecord: an UpToDate result of world.execute is
\* invalidated instead of recorded
CommitsRecord_OnlySucceeded(res) == res = Succeeded

\* the match on build_result: write_build or invalidate_build
CommitsRecord(res) == res \in {Succeeded, UpToDate}

WorkerCommit(id) ==
    /\ workers[id].pc = "commit"
    /\ LET build == lookup_build(graph, id)
           build_hash == hash_build(build, graph)
       IN db' = IF CommitsRecord(workers[id].result)
                THEN write_build(db, graph, world, build, build_hash,
                                 hash_input_set(id, graph))
                ELSE invalidate_build(db, graph, build, build_hash)
    /\ workers' = [workers EXCEPT ![id].pc = "send"]
    /\ UNCHANGED <<world, chan, exec_log, pc, run_result>>
    /\ UNCHANGED exec_vars
    /\ UNCHANGED env_vars
    /\ UNCHANGED progress

\* report.send(BuildNodeResult { id, result })
WorkerSend(id) ==
    /\ workers[id].pc = "send"
    /\ chan' = Append(chan, [id |-> id, result |-> workers[id].result])
    /\ workers' = [workers EXCEPT ![id].pc = "done"]
    /\ UNCHANGED <<world, db, exec_log, pc, run_result>>
    /\ UNCHANGED exec_vars
    /\ UNCHANGED env_vars
    /\ UNCHANGED progress

\* ------------------------------------------------------------------------
\* The callers: graphs, worlds, repeated runs  (src/tests/mock_tests.rs)
\* ------------------------------------------------------------------------
\* one rule of the mock_graph! macro: outputs, command, inputs, dependencies
Rule(outs, cmd, ins, deps) == [outs |-> outs, cmd |-> cmd, ins |-> ins, deps |-> deps]

RECURSIVE add_build_deps(_, _, _)
add_build_deps(g, build_id, deps) ==
    IF deps = <<>> THEN g
    ELSE add_build_deps(add_build_dep(g, build_id, Head(deps)), build_id, Tail(deps))

FileIdsOf(files, paths) == [i \in 1..Len(paths) |-> IndexOf(files, paths[i])]

RECURSIVE mock_graph(_, _)
mock_graph(g, rules) ==
    IF rules = <<>> THEN g
    ELSE LET r == Head(rules)
             files == add_files(add_files(g.files, r.outs), r.ins)
             node == [command |-> [kind |-> "SubCommand", executable |-> r.cmd,
                                    args |-> <<>>],
                      ins |-> FileIdsOf(files, r.ins),
                      outs |-> FileIdsOf(files, r.outs)]
             g1 == add_build([g EXCEPT !.files = files], node)
         IN mock_graph(add_build_deps(g1, Len(g1.nodes), r.deps), Tail(rules))

a_in == <<97, 46, 105>>
a_out == <<97, 46, 111>>
b_in == <<98, 46, 105>>
b_out == <<98, 46, 111>>
c_in == <<99, 46, 105>>
c_out == <<99, 46, 111>>
ExeA == <<65>>
ExeB == <<66>>
ExeC == <<67>>
ExeX == <<88>>

\* a: "a.o" => A("a.i")
GraphSingle == mock_graph(EmptyGraph, <<Rule(<<a_out>>, ExeA, <<a_in>>, <<>>)>>)

\* a; b, dep(a): "b.o" => B("a.o")
GraphLinear ==
    mock_graph(EmptyGraph, <<Rule(<<a_out>>, ExeA, <<a_in>>, <<>>),
                             Rule(<<b_out>>, ExeB, <<a_out>>, <<1>>)>>)

\* a; b, dep(a); c, dep(b)
GraphChain ==
    mock_graph(EmptyGraph, <<Rule(<<a_out>>, ExeA, <<a_in>>, <<>>),
                             Rule(<<b_out>>, ExeB, <<a_out>>, <<1>>),
                             Rule(<<c_out>>, ExeC, <<b_out>>, <<2>>)>>)

\* a; b; c, dep(a, b): "c.o" => C("a.o", "b.o")
GraphJoin ==
    mock_graph(EmptyGraph, <<Rule(<<a_out>>, ExeA, <<a_in>>, <<>>),
                             Rule(<<b_out>>, ExeB, <<b_in>>, <<>>),
                             Rule(<<c_out>>, ExeC, <<a_out, b_out>>, <<1, 2>>)>>)

\* a; b, dep(a); c, dep(a)
GraphFork ==
    mock_graph(EmptyGraph, <<Rule(<<a_out>>, ExeA, <<a_in>>, <<>>),
                             Rule(<<b_out>>, ExeB, <<a_out>>, <<1>>),
                             Rule(<<c_out>>, ExeC, <<a_out>>, <<1>>)>>)

\* a; b reads "a.o" but declares no dependency on a
GraphUndeclared ==
    mock_graph(EmptyGraph, <<Rule(<<a_out>>, ExeA, <<a_in>>, <<>>),
                             Rule(<<b_out>>, ExeB, <<a_out>>, <<>>)>>)

\* a: "a.o" => A("a.i", "b.i")
GraphTwoInputs ==
    mock_graph(EmptyGraph, <<Rule(<<a_out>>, ExeA, <<a_in, b_in>>, <<>>)>>)

Graphs ==
    {GraphSingle, GraphLinear, GraphChain, GraphJoin, GraphFork, GraphUndeclared,
     GraphTwoInputs}

RerunGraphs == {GraphSingle, GraphLinear, GraphUndeclared, GraphTwoInputs}

\* the declared outputs and the source files (inputs no build declares as output)
OutputPaths(g) == UNION {Range(PathsOf(g, g.nodes[b].outs)) : b \in BuildIds(g)}

SourcePaths(g) == Range(g.files) \ OutputPaths(g)

SourceSeq(g) == SelectSeq(g.files, LAMBDA p : p \in SourcePaths(g))

NewWorld == [files |-> <<>>, epoch |-> 0, unreadable |-> {}]

\* the worlds a run starts in: every source file touched, or all but one, or
\* one of them unreadable, or every file of the graph touched
InitWorlds(g) ==
    LET all == touch_all(NewWorld, SourceSeq(g))
    IN {all, touch_all(NewWorld, g.files)}
        \cup {remove_file(all, p) : p \in SourcePaths(g)}
        \cup {[all EXCEPT !.unreadable = {p}] : p \in SourcePaths(g)}

\* the worlds of the tests that run a graph twice: the source files touched,
\* or every file of the graph touched
RerunWorlds(g) == {touch_all(NewWorld, SourceSeq(g)), touch_all(NewWorld, g.files)}

NoWorkers(g) == [b \in BuildIds(g) |-> Worker("none", "none")]

InitWith(g, par, w, ids) ==
    /\ graph = g
    /\ parallelism = par
    /\ world = w
    /\ db = EmptyDb
    /\ wanted = ids
    /\ pending = want_internal(g, ids, <<>>, <<>>).pending
    /\ builds = want_internal(g, ids, <<>>, <<>>).builds
    /\ running = 0
    /\ finished = 0
    /\ failed = 0
    /\ build_started = FALSE
    /\ pc = "idle"
    /\ run_result = "none"
    /\ workers = NoWorkers(g)
    /\ chan = <<>>
    /\ exec_log = <<>>
    /\ run_no = 1
    /\ mutated = FALSE
    /\ prev_builds = <<>>
    /\ prev_result = "none"
    /\ start_db = EmptyDb
    /\ start_world = w
    /\ progress = <<>>

Init ==
    \E g \in Graphs : \E par \in 1..MaxParallelism : \E w \in InitWorlds(g) :
        InitWith(g, par, w, <<>>)

\* ExecConfig::default() has parallelism 1
DefaultParallelism == 1

\* the tests want one build, or every build of the graph
RerunWants(g) == {<<b>> : b \in BuildIds(g)} \cup {[i \in BuildIds(g) |-> i]}

\* run_graph: a new executor, want(ids), run()
InitRerun ==
    \E g \in RerunGraphs : \E w \in RerunWorlds(g) : \E ids \in RerunWants(g) :
        InitWith(g, DefaultParallelism, w, ids)

\* what a caller does to the world between two runs
Mutations(g) ==
    {[op |-> "none"]}
        \cup {[op |-> "touch", path |-> p] : p \in Range(g.files)}
        \cup {[op |-> "remove", path |-> p] : p \in Range(g.files)}

Mutate(w, m) ==
    CASE m.op = "touch" -> touch_file(w, m.path)
      [] m.op = "remove" -> remove_file(w, m.path)
      [] OTHER -> w

\* the caller changes the world (or not) and calls run_graph again: a new
\* Executor over the same graph, cache and world, and want() of the same ids
RunGraph(g, w) ==
    /\ pc = "returned"
    /\ run_no' = run_no + 1
    /\ graph' = g
    /\ world' = w
    /\ mutated' = (world' # world)
    /\ prev_builds' = [b \in DOMAIN builds |-> builds[b].kind]
    /\ prev_result' = run_result
    /\ start_db' = db
    /\ start_world' = world'
    /\ progress' = <<>>
    /\ pending' = want_internal(g, wanted, <<>>, <<>>).pending
    /\ builds' = want_internal(g, wanted, <<>>, <<>>).builds
    /\ running' = 0
    /\ finished' = 0
    /\ failed' = 0
    /\ build_started' = FALSE
    /\ pc' = "idle"
    /\ run_result' = "none"
    /\ workers' = NoWorkers(g)
    /\ chan' = <<>>
    /\ exec_log' = <<>>
    /\ UNCHANGED <<parallelism, db, wanted>>

\* the caller changes the world (or not) and runs the same graph again
NewRun(m) ==
    /\ run_no < MaxRuns
    /\ RunGraph(graph, Mutate(world, m))

\* a: "a.o" => X("a.i"): the rule of GraphSingle with another executable
GraphCommandX == mock_graph(EmptyGraph, <<Rule(<<a_out>>, ExeX, <<a_in>>, <<>>)>>)

\* the graph of the n-th build: A, then X, then A again and again
CommandGraph(n) == IF n = 2 THEN GraphCommandX ELSE GraphSingle

\* the caller builds the next graph of the sequence over the same cache and world
NewCommand ==
    /\ run_no < MaxCommandRuns
    /\ RunGraph(CommandGraph(run_no + 1), world)

Step ==
    \/ RunBegin
    \/ StartBuild
    \/ LoopCheck
    \/ BuildFinished
    \/ RunReturn
    \/ \E id \in BuildIds(graph) : WorkerStat(id)
    \/ \E id \in BuildIds(graph) : \E res \in ExecuteResults :
           \E writes \in ExecuteWrites : WorkerExecute(id, res, writes)
    \/ \E id \in BuildIds(graph) : WorkerCommit(id)
    \/ \E id \in BuildIds(graph) : WorkerSend(id)

NextRerun ==
    \/ Step
    \/ \E m \in Mutations(graph) : NewRun(m)

Next ==
    \/ \E ids \in WantArgs(graph) : Want(ids)
    \/ Step

Spec == Init /\ [][Next]_vars

\* the thread that called run(): the body of run_inner and the return
ControllerStep == StartBuild \/ LoopCheck \/ BuildFinished \/ RunReturn

\* the task spawned for one build: run_build from its first line to the send
WorkerTask(id) ==
    /\ id \in BuildIds(graph)
    /\ \/ WorkerStat(id)
       \/ \E res \in ExecuteResults : \E writes \in ExecuteWrites :
              WorkerExecute(id, res, writes)
       \/ WorkerCommit(id)
       \/ WorkerSend(id)

\* a; b, dep(a); c on its own: a chain next to an independent leaf
GraphBranch ==
    mock_graph(EmptyGraph, <<Rule(<<a_out>>, ExeA, <<a_in>>, <<>>),
                             Rule(<<b_out>>, ExeB, <<a_out>>, <<1>>),
                             Rule(<<c_out>>, ExeC, <<c_in>>, <<>>)>>)

\* every build wanted, every source file present
InitBranch ==
    \E par \in 1..MaxParallelism :
        InitWith(GraphBranch, par, touch_all(NewWorld, SourceSeq(GraphBranch)),
                 [i \in BuildIds(GraphBranch) |-> i])

SpecBranch == InitBranch /\ [][Step]_vars

\* the graph of test_linear_dependency_success, two leaves with a consumer
\* of both, and one leaf whose two consumers become ready together
LiveGraphs == {GraphLinear, GraphJoin, GraphFork}

LiveIds == UNION {BuildIds(g) : g \in LiveGraphs}

\* every build wanted, every source file present
InitLive ==
    \E g \in LiveGraphs : \E par \in 1..MaxParallelism :
        InitWith(g, par, touch_all(NewWorld, SourceSeq(g)),
                 [i \in BuildIds(g) |-> i])

\* one run under the scheduling the threads get: the controller thread keeps
\* running while it has a step to take (recv blocks until a message is
\* there), and a task the pool has a thread for runs to its send
SpecLive ==
    /\ InitLive
    /\ [][Step]_vars
    /\ WF_vars(ControllerStep)
    /\ \A id \in LiveIds : WF_vars(WorkerTask(id))

\* the graph of test_nothing, one build, two leaves with a consumer of both,
\* and a chain next to an independent leaf
TermGraphs == {EmptyGraph, GraphSingle, GraphJoin, GraphBranch}

TermIds == UNION {BuildIds(g) : g \in TermGraphs}

\* nothing wanted, one or two builds wanted, or every build wanted; every
\* source file present
InitTerm ==
    \E g \in TermGraphs : \E par \in 1..MaxParallelism :
        \E ids \in {<<>>, [i \in BuildIds(g) |-> i]} \cup WantArgs(g) :
            InitWith(g, par, touch_all(NewWorld, SourceSeq(g)), ids)

\* one run under the scheduling the threads get, as in SpecLive: in_place_scope
\* runs every spawned task to its end, and the controller thread keeps running
SpecTerm ==
    /\ InitTerm
    /\ [][Step]_vars
    /\ WF_vars(ControllerStep)
    /\ \A id \in TermIds : WF_vars(WorkerTask(id))

SpecRerun == InitRerun /\ [][NextRerun]_vars

\* ------------------------------------------------------------------------
\* One graph in different layouts  (src/src/graph/hash.rs:47-50: "the
\* difference layout of the graph between runs")
\* ------------------------------------------------------------------------
\* a; b; c, dep(a, b): "c.o" => C("c.i", "a.o")
LayoutBase ==
    mock_graph(EmptyGraph, <<Rule(<<a_out>>, ExeA, <<a_in>>, <<>>),
                             Rule(<<b_out>>, ExeB, <<b_in>>, <<>>),
                             Rule(<<c_out>>, ExeC, <<c_in, a_out>>, <<1, 2>>)>>)

IndexPermutations(n) ==
    {p \in [1..n -> 1..n] : \A i \in 1..n : \A j \in 1..n : p[i] = p[j] => i = j}

\* the identity, the reversal and the rotation by one
SomePermutations(n) ==
    {[i \in 1..n |-> i], [i \in 1..n |-> n + 1 - i], [i \in 1..n |-> (i % n) + 1]}

PermuteSeq(s, p) == [i \in 1..Len(s) |-> s[p[i]]]

\* the graph a caller gets who adds the same nodes, files and edges in another
\* order: build `b` gets the id pb[b], file `f` the id pf[f], every `ins` list
\* is arranged by pi and the edges are added in the order pe
Layout(g, pb, pf, pi, pe) ==
    LET renumbered(ids) == [i \in 1..Len(ids) |-> pf[ids[i]]]
        arranged(ids) == IF Len(ids) = Len(pi) THEN PermuteSeq(ids, pi) ELSE ids
        old_build(n) == CHOOSE o \in 1..Len(g.nodes) : pb[o] = n
        old_file(k) == CHOOSE o \in 1..Len(g.files) : pf[o] = k
    IN [nodes |-> [n \in 1..Len(g.nodes) |->
                       [g.nodes[old_build(n)] EXCEPT
                            !.ins = renumbered(arranged(@)),
                            !.outs = renumbered(@)]],
        files |-> [k \in 1..Len(g.files) |-> g.files[old_file(k)]],
        edges |-> [i \in 1..Len(g.edges) |->
                       <<pb[PermuteSeq(g.edges, pe)[i][1]],
                         pb[PermuteSeq(g.edges, pe)[i][2]]>>]]

Layouts(g) ==
    {Layout(g, pb, pf, pi, pe) :
         pb \in IndexPermutations(Len(g.nodes)), pf \in SomePermutations(Len(g.files)),
         pi \in IndexPermutations(2), pe \in IndexPermutations(Len(g.edges))}

\* run_graph of one layout, every file in place
InitLayout ==
    \E g \in Layouts(LayoutBase) :
        InitWith(g, DefaultParallelism, touch_all(NewWorld, g.files),
                 [i \in BuildIds(g) |-> i])

SpecLayout == InitLayout /\ [][Step]_vars

\* a: "a.o", "b.o" => A("a.i"); c, dep(a): "c.o" => C("a.o")
GraphTwoOutputs ==
    mock_graph(EmptyGraph, <<Rule(<<a_out, b_out>>, ExeA, <<a_in>>, <<>>),
                             Rule(<<c_out>>, ExeC, <<a_out>>, <<1>>)>>)

\* the graph of a caller who lists the outputs of the two-output build in the
\* order po and, when other_ins holds, declares "b.i" as its input instead
OutputLayout(g, po, other_ins) ==
    LET files == IF other_ins THEN add_file_table(g.files, b_in) ELSE g.files
    IN [g EXCEPT
            !.files = files,
            !.nodes = [n \in 1..Len(g.nodes) |->
                           IF Len(g.nodes[n].outs) = Len(po)
                           THEN [g.nodes[n] EXCEPT
                                     !.outs = PermuteSeq(@, po),
                                     !.ins = IF other_ins
                                             THEN <<IndexOf(files, b_in)>>
                                             ELSE @]
                           ELSE g.nodes[n]]]

OutputLayouts(g) ==
    UNION {LET h == OutputLayout(g, po, other_ins)
           IN {Layout(h, [i \in 1..Len(h.nodes) |-> i], pf, <<1, 2>>,
                      [i \in 1..Len(h.edges) |-> i]) :
                   pf \in SomePermutations(Len(h.files))} :
               po \in IndexPermutations(2), other_ins \in BOOLEAN}

\* run_graph of one of these graphs, every file in place
InitOutputs ==
    \E g \in OutputLayouts(GraphTwoOutputs) :
        InitWith(g, DefaultParallelism, touch_all(NewWorld, g.files),
                 [i \in BuildIds(g) |-> i])

SpecOutputs == InitOutputs /\ [][Step]_vars

\* ------------------------------------------------------------------------
\* A caller of the in-memory cache  (src/src/db/in_memory.rs)
\*   The Writer holds the write guard of the one DbInner, so every call on it
\*   changes `db` at once.  `start_db` keeps the records of the moment
\*   begin_write returned; pc tells whether a Writer is open ("db_writing")
\*   and how the last one ended ("db_committed", "db_dropped").
\* ------------------------------------------------------------------------
DbHashes == {hash_build(lookup_build(GraphSingle, 1), GraphSingle),
             hash_build(lookup_build(GraphCommandX, 1), GraphCommandX)}

DbPaths == {a_out, b_out}

DbBuildInfos ==
    {[last_start |-> t, last_end |-> None,
      input_set_digest |-> hash_input_set(1, GraphSingle),
      additional_inputs |-> <<>>] : t \in 1..2}

DbFileInfos == {[last_seen |-> 1, generated_by |-> h] : h \in DbHashes}

\* InMemoryDb::new()
InitDb ==
    /\ graph = GraphSingle
    /\ parallelism = DefaultParallelism
    /\ world = NewWorld
    /\ db = EmptyDb
    /\ wanted = <<>>
    /\ pending = <<>>
    /\ builds = <<>>
    /\ running = 0
    /\ finished = 0
    /\ failed = 0
    /\ build_started = FALSE
    /\ pc = "db_idle"
    /\ run_result = "none"
    /\ workers = NoWorkers(GraphSingle)
    /\ chan = <<>>
    /\ exec_log = <<>>
    /\ run_no = 1
    /\ mutated = FALSE
    /\ prev_builds = <<>>
    /\ prev_result = "none"
    /\ start_db = EmptyDb
    /\ start_world = NewWorld
    /\ progress = <<>>

\* a call on the open Writer, or the end of it: only db, start_db, pc change
DbStep(to_pc, to_db, to_start) ==
    /\ pc' = to_pc
    /\ db' = to_db
    /\ start_db' = to_start
    /\ UNCHANGED <<graph, parallelism, world, pending, builds, running,
                   finished, failed, build_started, run_result, workers, chan,
                   exec_log, run_no, wanted, mutated, prev_builds, prev_result,
                   start_world, progress>>

\* begin_write: takes the write lock, so no other Writer is open
DbBeginWrite ==
    /\ pc \in {"db_idle", "db_committed", "db_dropped"}
    /\ DbStep("db_writing", db, db)

DbSetBuildInfo(hash, info) ==
    /\ pc = "db_writing"
    /\ DbStep(pc, set_build_info(db, hash, info), start_db)

DbSetFileInfo(path, info) ==
    /\ pc = "db_writing"
    /\ DbStep(pc, set_file_info(db, path, info), start_db)

DbInvalidateBuild(hash) ==
    /\ pc = "db_writing"
    /\ DbStep(pc, db_invalidate_build(db, hash), start_db)

DbInvalidateFile(path) ==
    /\ pc = "db_writing"
    /\ DbStep(pc, invalidate_file(db, path), start_db)

\* commit(self: Box<Self>): "No-op for in-memory DB"; the guard is released
DbCommit ==
    /\ pc = "db_writing"
    /\ DbStep("db_committed", db, start_db)

\* the Writer goes out of scope without commit: Writer has no Drop impl, the
\* guard is released and DbInner stays as the calls left it
DbDrop ==
    /\ pc = "db_writing"
    /\ DbStep("db_dropped", db, start_db)

NextDb ==
    \/ DbBeginWrite
    \/ \E hash \in DbHashes : \E info \in DbBuildInfos : DbSetBuildInfo(hash, info)
    \/ \E path \in DbPaths : \E info \in DbFileInfos : DbSetFileInfo(path, info)
    \/ \E hash \in DbHashes : DbInvalidateBuild(hash)
    \/ \E path \in DbPaths : DbInvalidateFile(path)
    \/ DbCommit
    \/ DbDrop

SpecDb == InitDb /\ [][NextDb]_vars

\* ------------------------------------------------------------------------
\* Transactions of concurrent tasks on the in-memory cache
\*   (src/src/db/in_memory.rs:43-97, src/src/exec.rs:475-552, 591-639)
\*   InMemoryDb is an Arc<RwLock<DbInner>>: a Reader is a read guard, a Writer
\*   is a write guard, and both live from begin_read/begin_write to the end of
\*   the transaction.  workers[t].pc names the transaction task t holds and
\*   workers[t].result its position: the build it is about, the calls made so
\*   far, the time write_build took and what the Reader returned.  start_db is
\*   DbInner as it was when the open Writer was created.
\* ------------------------------------------------------------------------
MaxClock == 2

TxnGraph == GraphTwoOutputs

Txn(b, n, t, sb, sf) ==
    [build |-> b, calls |-> n, now |-> t, seen_build |-> sb, seen_files |-> sf]

Readers(ws) == {t \in DOMAIN ws : ws[t].pc = "reading"}

Writers(ws) == {t \in DOMAIN ws : ws[t].pc \in {"write_build", "invalidate_build"}}

\* a faulty variant of the lock: a read guard is handed out while a write
\* guard is held
ReadLockFree_Always(readers, writers) == TRUE

\* RwLock::read returns once no write guard is held
ReadLockFree(readers, writers) == writers = {}

\* RwLock::write returns once no guard at all is held
WriteLockFree(readers, writers) == readers = {} /\ writers = {}

TxnOuts(b) == PathsOf(graph, lookup_build(graph, b).outs)

TxnHash(b) == hash_build(lookup_build(graph, b), graph)

InitTxn ==
    /\ graph = TxnGraph
    /\ parallelism = DefaultParallelism
    /\ world = NewWorld
    /\ db = EmptyDb
    /\ wanted = <<>>
    /\ pending = <<>>
    /\ builds = <<>>
    /\ running = 0
    /\ finished = 0
    /\ failed = 0
    /\ build_started = FALSE
    /\ pc = "txn"
    /\ run_result = "none"
    /\ workers = NoWorkers(TxnGraph)
    /\ chan = <<>>
    /\ exec_log = <<>>
    /\ run_no = 1
    /\ mutated = FALSE
    /\ prev_builds = <<>>
    /\ prev_result = "none"
    /\ start_db = EmptyDb
    /\ start_world = NewWorld
    /\ progress = <<>>

\* a step of task t: only its transaction, DbInner and the clock can change
TxnStep(t, to_worker, to_db, to_start, to_world) ==
    /\ workers' = [workers EXCEPT ![t] = to_worker]
    /\ db' = to_db
    /\ start_db' = to_start
    /\ world' = to_world
    /\ UNCHANGED <<graph, parallelism, pending, builds, running, finished,
                   failed, build_started, pc, run_result, chan, exec_log,
                   run_no, wanted, mutated, prev_builds, prev_result,
                   start_world, progress>>

\* begin_read: self.inner.read()
TxnBeginRead(t, b) ==
    /\ workers[t].pc = "none"
    /\ ReadLockFree(Readers(workers), Writers(workers))
    /\ TxnStep(t, Worker("reading", Txn(b, 0, 0, None, <<>>)), db, start_db, world)

\* stat_node: get_build_info of the build first, get_file_info of a file per
\* further call, all on the one Reader
TxnRead(t) ==
    LET r == workers[t].result
    IN /\ workers[t].pc = "reading"
       /\ r.calls <= Len(TxnOuts(r.build))
       /\ TxnStep(t,
                  Worker("reading",
                         IF r.calls = 0
                         THEN [r EXCEPT !.calls = 1,
                                        !.seen_build =
                                            get_build_info(db, TxnHash(r.build))]
                         ELSE [r EXCEPT !.calls = @ + 1,
                                        !.seen_files =
                                            Append(@, get_file_info(
                                                db, TxnOuts(r.build)[r.calls]))]),
                  db, start_db, world)

\* drop(txn), or a return of stat_node with the Reader still in scope
TxnEndRead(t) ==
    /\ workers[t].pc = "reading"
    /\ workers[t].result.calls >= 1
    /\ TxnStep(t, Worker("none", "none"), db, start_db, world)

\* begin_write: self.inner.write(); write_build reads the clock right after
TxnBeginWrite(t, b, kind) ==
    /\ workers[t].pc = "none"
    /\ WriteLockFree(Readers(workers), Writers(workers))
    /\ TxnStep(t, Worker(kind, Txn(b, 0, now(world), None, <<>>)), db, db, world)

\* write_build: set_build_info, then set_file_info per output
TxnWriteBuild(t) ==
    LET r == workers[t].result
    IN /\ workers[t].pc = "write_build"
       /\ r.calls <= Len(TxnOuts(r.build))
       /\ TxnStep(t, Worker("write_build", [r EXCEPT !.calls = @ + 1]),
                  IF r.calls = 0
                  THEN set_build_info(db, TxnHash(r.build),
                                      [last_start |-> r.now,
                                       last_end |-> None,
                                       input_set_digest |->
                                           hash_input_set(r.build, graph),
                                       additional_inputs |-> <<>>])
                  ELSE set_file_info(db, TxnOuts(r.build)[r.calls],
                                     [last_seen |-> r.now,
                                      generated_by |-> TxnHash(r.build)]),
                  start_db, world)

\* invalidate_build: invalidate_build, then invalidate_file per output
TxnInvalidateBuild(t) ==
    LET r == workers[t].result
    IN /\ workers[t].pc = "invalidate_build"
       /\ r.calls <= Len(TxnOuts(r.build))
       /\ TxnStep(t, Worker("invalidate_build", [r EXCEPT !.calls = @ + 1]),
                  IF r.calls = 0
                  THEN db_invalidate_build(db, TxnHash(r.build))
                  ELSE invalidate_file(db, TxnOuts(r.build)[r.calls]),
                  start_db, world)

\* txn.commit(): every call of the function was made, the guard is released
TxnCommit(t) ==
    /\ t \in Writers(workers)
    /\ workers[t].result.calls = Len(TxnOuts(workers[t].result.build)) + 1
    /\ TxnStep(t, Worker("none", "none"), db, start_db, world)

\* time passes between transactions: MockWorld advances its clock on a touch
TxnClock ==
    /\ now(world) < MaxClock
    /\ world' = touch_file(world, a_in)
    /\ UNCHANGED <<graph, parallelism, db, pending, builds, running, finished,
                   failed, build_started, pc, run_result, workers, chan,
                   exec_log, run_no, wanted, mutated, prev_builds, prev_result,
                   start_db, start_world, progress>>

NextTxn ==
    \E t \in BuildIds(TxnGraph) :
        \/ \E b \in BuildIds(TxnGraph) : TxnBeginRead(t, b)
        \/ TxnRead(t)
        \/ TxnEndRead(t)
        \/ \E b \in BuildIds(TxnGraph) :
               \E kind \in {"write_build", "invalidate_build"} :
                   TxnBeginWrite(t, b, kind)
        \/ TxnWriteBuild(t)
        \/ TxnInvalidateBuild(t)
        \/ TxnCommit(t)
        \/ TxnClock

SpecTxn == InitTxn /\ [][NextTxn]_vars

\* ------------------------------------------------------------------------
\* Two builds and the cache keys hash_build gives them
\*   (src/src/graph/hash.rs:15-45, src/src/exec.rs:642-699)
\* ------------------------------------------------------------------------
MaxHashWords == 1

\* "out" and "x": what a caller can pass as an argument, a callback name or
\* an output path
HashWords == {<<111, 117, 116>>, <<120>>}

HashWordLists == UNION {[1..k -> HashWords] : k \in 0..MaxHashWords}

\* BuildMethod: SubCommand(BuildCommand), Callback(name, _), Phony
HashCommands ==
    {[kind |-> "SubCommand", executable |-> ExeA, args |-> a] : a \in HashWordLists}
        \cup {[kind |-> "Callback", name |-> w] : w \in HashWords}
        \cup {[kind |-> "Phony"]}

\* the graph of a caller who adds the build c1 with the outputs o1 and the
\* build c2 with the outputs o2
HashGraph(c1, o1, c2, o2) ==
    LET files == add_files(add_files(EmptyGraph.files, o1), o2)
        node(c, o) == [command |-> c, ins |-> <<>>, outs |-> FileIdsOf(files, o)]
    IN add_build(add_build([EmptyGraph EXCEPT !.files = files], node(c1, o1)),
                 node(c2, o2))

InitHash ==
    \E c1 \in HashCommands : \E c2 \in HashCommands :
        \E o1 \in HashWordLists : \E o2 \in HashWordLists :
            /\ graph = HashGraph(c1, o1, c2, o2)
            /\ parallelism = DefaultParallelism
            /\ world = NewWorld
            /\ db = EmptyDb
            /\ wanted = <<>>
            /\ pending = <<>>
            /\ builds = <<>>
            /\ running = 0
            /\ finished = 0
            /\ failed = 0
            /\ build_started = FALSE
            /\ pc = "hashing"
            /\ run_result = "none"
            /\ workers = NoWorkers(HashGraph(c1, o1, c2, o2))
            /\ chan = <<>>
            /\ exec_log = <<>>
            /\ run_no = 1
            /\ mutated = FALSE
            /\ prev_builds = <<>>
            /\ prev_result = "none"
            /\ start_db = EmptyDb
            /\ start_world = NewWorld
            /\ progress = <<>>

\* run_build of a build whose command succeeds: hash_build gives the key,
\* write_build stores the record under it; workers[id].result keeps the key
HashRecord(id) ==
    LET node == lookup_build(graph, id)
        build_hash == hash_build(node, graph)
    IN /\ pc = "hashing"
       /\ workers[id].pc = "none"
       /\ workers' = [workers EXCEPT ![id] = Worker("done", build_hash)]
       /\ db' = write_build(db, graph, world, node, build_hash,
                            hash_input_set(id, graph))
       /\ UNCHANGED <<graph, parallelism, world, pending, builds, running,
                      finished, failed, build_started, pc, run_result, chan,
                      exec_log, run_no, wanted, mutated, prev_builds,
                      prev_result, start_db, start_world, progress>>

NextHash == \E id \in BuildIds(graph) : HashRecord(id)

SpecHash == InitHash /\ [][NextHash]_vars

\* ------------------------------------------------------------------------
\* A caller of GraphBuilder  (src/src/graph.rs:103-173)
\* ------------------------------------------------------------------------
\* a node without files: what the builder does with edges does not read it
BuilderNode ==
    [command |-> [kind |-> "Phony"], ins |-> <<>>, outs |-> <<>>]

\* the BuildIds a caller can hold: those add_build of this builder returned,
\* and those of another builder that has handed out one more
BuilderIds == 1..(MaxBuilderNodes + 1)

\* GraphBuilder::new()
InitBuilder ==
    /\ graph = EmptyGraph
    /\ parallelism = DefaultParallelism
    /\ world = NewWorld
    /\ db = EmptyDb
    /\ wanted = <<>>
    /\ pending = <<>>
    /\ builds = <<>>
    /\ running = 0
    /\ finished = 0
    /\ failed = 0
    /\ build_started = FALSE
    /\ pc = "building"
    /\ run_result = "none"
    /\ workers = <<>>
    /\ chan = <<>>
    /\ exec_log = <<>>
    /\ run_no = 1
    /\ mutated = FALSE
    /\ prev_builds = <<>>
    /\ prev_result = "none"
    /\ start_db = EmptyDb
    /\ start_world = NewWorld
    /\ progress = <<>>

BuilderUnchanged ==
    UNCHANGED <<parallelism, world, db, pending, builds, running, finished,
                failed, build_started, run_result, workers, chan, exec_log,
                run_no, wanted, mutated, prev_builds, prev_result, start_db,
                start_world, progress>>

AddBuild ==
    /\ pc = "building"
    /\ Len(graph.nodes) < MaxBuilderNodes
    /\ graph' = add_build(graph, BuilderNode)
    /\ pc' = pc
    /\ BuilderUnchanged

AddBuildDep(dependent, dependency) ==
    /\ pc = "building"
    /\ Len(graph.edges) < MaxBuilderEdges
    /\ graph' = add_build_dep(graph, dependent, dependency)
    /\ pc' = pc
    /\ BuilderUnchanged

\* build(self): `graph` keeps what the builder held, also when the call
\* returns the error and the value is dropped
Build ==
    /\ pc = "building"
    /\ pc' = IF builder_build(graph) = "Ok" THEN "built" ELSE "build_err"
    /\ graph' = graph
    /\ BuilderUnchanged

NextBuilder ==
    \/ AddBuild
    \/ \E dependent \in BuilderIds : \E dependency \in BuilderIds :
           AddBuildDep(dependent, dependency)
    \/ Build

SpecBuilder == InitBuilder /\ [][NextBuilder]_vars

\* run_graph of the first graph of the command sequence
InitCommand ==
    \E w \in RerunWorlds(GraphSingle) :
        InitWith(CommandGraph(1), DefaultParallelism, w, <<1>>)

NextCommand ==
    \/ Step
    \/ NewCommand

SpecCommand == InitCommand /\ [][NextCommand]_vars

\* the graph of the n-th build: the rule of A keeps its command and its output
\* while the input "b.i" is added for the second and third build and removed
\* again afterwards
InputsGraph(n) == IF n \in {2, 3} THEN GraphTwoInputs ELSE GraphSingle

\* the caller builds the next graph of the sequence over the same cache and world
NewInputs ==
    /\ run_no < MaxCommandRuns
    /\ RunGraph(InputsGraph(run_no + 1), world)

InitInputs ==
    \E w \in RerunWorlds(GraphTwoInputs) :
        InitWith(InputsGraph(1), DefaultParallelism, w, <<1>>)

NextInputs ==
    \/ Step
    \/ NewInputs

SpecInputs == InitInputs /\ [][NextInputs]_vars


\* ========================================================================
\* Properties
\* ========================================================================
\* the tracked actions that reach `id` through dependency edges
TransitiveConsumers(g, id) == ReachIn(g, {id}) \ {id}

\* the actions a worker task has been spawned for in the current run
Dispatched == {b \in DOMAIN workers : workers[b].pc # "none"}

Tracked == DOMAIN builds

OutputsOf(g, id) == Range(PathsOf(g, g.nodes[id].outs))

\* C1 (dependency ordering): an action that has been dispatched (Fresh ->
\* Started, its task spawned) has every direct dependency tracked and of kind
\* UpToDate or Succeeded; no action is dispatched while a direct dependency is
\* Fresh, Started, Failed or Skipped.
C1_DependencyOrdering ==
    \A b \in Dispatched :
        /\ b \in Tracked
        /\ builds[b].kind # Fresh
        /\ \A d \in DepsOf(graph, b) :
               d \in Tracked /\ builds[d].kind \in {UpToDate, Succeeded}

\* a consumer of two dependencies has been dispatched
C1_Witness ==
    \E b \in Dispatched : Cardinality(DepsOf(graph, b)) >= 2

\* C2 (failure propagation), as the documentation states it: once the
\* controller has recorded an action as Failed, every tracked transitive
\* consumer of it is Skipped, and both counters have grown by one for the
\* failed action and one for each consumer skipped.
C2_FailurePropagation ==
    \A f \in Tracked :
        builds[f].kind = Failed =>
            /\ \A c \in TransitiveConsumers(graph, f) \cap Tracked :
                   builds[c].kind = Skipped
            /\ failed >= 1 + Cardinality(TransitiveConsumers(graph, f) \cap Tracked)

\* C3 (no downstream execution after a failure): when a worker's result for an
\* action is Failed, world.execute is never invoked for a transitive consumer
\* of it, and at the end of the run, the cache having been empty at its start,
\* no FileRecord exists for an output of the failed action or of a consumer.
C3_NoDownstreamExecution ==
    \A f \in DOMAIN workers :
        workers[f].result = Failed =>
            /\ \A c \in TransitiveConsumers(graph, f) : c \notin Range(exec_log)
            /\ (pc = "returned" /\ run_no = 1) =>
                   \A c \in TransitiveConsumers(graph, f) \cup {f} :
                       \A p \in OutputsOf(graph, c) : get_file_info(db, p) = None

\* a run has returned in which an action failed in world.execute, with its
\* inputs and the inputs of a tracked consumer all present in the world
C3_Witness ==
    /\ pc = "returned"
    /\ \E f \in Tracked :
           /\ workers[f].result = Failed
           /\ f \in Range(exec_log)
           /\ \E c \in TransitiveConsumers(graph, f) \cap Tracked :
                  \A i \in Range(PathsOf(graph, graph.nodes[c].ins)) :
                      exists(world, i)

\* C4 (terminal stability): within a run, the kind of a tracked action that is
\* UpToDate, Succeeded, Failed or Skipped never changes again.
C4_TerminalStability ==
    [][\A b \in Tracked :
           (is_finished(builds[b].kind) /\ run_no' = run_no) =>
               (b \in DOMAIN builds' /\ builds'[b].kind = builds[b].kind)]_vars

\* a failure has been recorded whose skip loop walked over a node that was
\* already finished successfully
C4_Witness ==
    \E f \in Tracked :
        /\ builds[f].kind = Failed
        /\ \E d \in SkipTargets(graph, f) \cap Tracked :
               is_successful(builds[d].kind)


\* C5 (exit completeness), as the documentation states it: whenever the run
\* loop has exited without a run-level I/O error, finished equals the number
\* of tracked actions and every tracked action is UpToDate, Succeeded, Failed
\* or Skipped.
C5_ExitCompleteness ==
    pc = "join_ok" =>
        /\ finished = Cardinality(Tracked)
        /\ \A b \in Tracked : is_finished(builds[b].kind)

\* C6 (run success), as stated: a returned run has the value Ok(()) if and
\* only if failed = 0.
C6_OkIffNoFailure ==
    pc = "returned" => (run_result = "Ok" <=> failed = 0)

\* C6, as the code has it: a returned run has the value Ok(()) if and only if
\* its loop left through the break, that is with every tracked action
\* finished or with failed > 0; so every run with failed > 0 returns Ok(()),
\* and a run returns an error only when a worker reported an I/O error.
C6_OkIffLoopBreak ==
    pc = "returned" =>
        /\ run_result \in {"Ok", "Err"}
        /\ run_result = "Ok" <=>
               LoopExit(finished, Cardinality(Tracked), failed)
        /\ failed > 0 => run_result = "Ok"
        /\ run_result = "Err" => \E b \in Tracked : workers[b].result = "Err"

\* a run has returned Ok(()) with a failed action counted
C6_Witness ==
    pc = "returned" /\ run_result = "Ok" /\ failed > 0

\* C7 (failures are absorbed): when workers finish actions as Failed, two
\* dependencies of one consumer among them, and no worker reports an I/O
\* error, the controller does not panic and the run returns Ok(()).
C7_FailuresAbsorbed ==
    ( /\ \E b \in DOMAIN workers : workers[b].result = Failed
      /\ \A b \in DOMAIN workers : workers[b].result # "Err" ) =>
        /\ pc # "panicked"
        /\ pc = "returned" => run_result = "Ok"

\* a run has returned in which two dependencies of the same tracked consumer
\* both failed and no worker reported an I/O error
C7_Witness ==
    /\ pc = "returned"
    /\ \A b \in DOMAIN workers : workers[b].result # "Err"
    /\ \E c \in Tracked : \E a, b \in DepsOf(graph, c) :
           /\ a # b
           /\ workers[a].result = Failed
           /\ workers[b].result = Failed


\* no two actions declare the same output, and an input that another action
\* produces is covered by a chain of dependency edges to its producer
WellDeclared(g) ==
    \A c, a \in BuildIds(g) :
        c # a =>
            /\ OutputsOf(g, c) \cap OutputsOf(g, a) = {}
            /\ (Range(PathsOf(g, g.nodes[c].ins)) \cap OutputsOf(g, a) # {}) =>
                   a \in ReachOut(g, {c})

BuildHashOf(g, id) == hash_build(lookup_build(g, id), g)

\* the cache holds no ActionRecord of the action and no FileRecord of an
\* output of it
NoRecords(d, g, id) ==
    /\ get_build_info(d, BuildHashOf(g, id)) = None
    /\ \A p \in OutputsOf(g, id) : get_file_info(d, p) = None

\* the cache holds for the action and its outputs what the other cache holds
SameRecords(d, e, g, id) ==
    /\ get_build_info(d, BuildHashOf(g, id)) = get_build_info(e, BuildHashOf(g, id))
    /\ \A p \in OutputsOf(g, id) : get_file_info(d, p) = get_file_info(e, p)

RerunOfSuccess ==
    /\ run_no > 1
    /\ ~mutated
    /\ prev_result = "Ok"
    /\ \A b \in DOMAIN prev_builds : is_successful(prev_builds[b])

\* every declared output of a tracked action existed when the run began
OutputsExist ==
    \A b \in Tracked : \A p \in OutputsOf(graph, b) : exists(start_world, p)

\* every declared input of a tracked action existed when the run began
InputsExist ==
    \A b \in Tracked :
        \A p \in Range(PathsOf(graph, graph.nodes[b].ins)) : exists(start_world, p)

C9_CacheConsistency ==
    \A b \in DOMAIN workers :
        ( /\ workers[b].pc \in {"send", "done"}
          /\ b \in Range(exec_log)
          /\ is_successful(workers[b].result) ) =>
            LET h == BuildHashOf(graph, b)
            IN /\ get_build_info(db, h) # None
               /\ unwrap(get_build_info(db, h)).input_set_digest
                      = hash_input_set(b, graph)
               /\ \A p \in OutputsOf(graph, b) :
                      /\ get_file_info(db, p) # None
                      /\ unwrap(get_file_info(db, p)).generated_by = h

\* a consumer of another action has been executed with the result Succeeded
\* and its write is committed
C9_Witness ==
    \E b \in DOMAIN workers :
        /\ workers[b].pc = "done"
        /\ b \in Range(exec_log)
        /\ workers[b].result = Succeeded
        /\ DepsOf(graph, b) # {}

\* C10 (cache invalidation after failure), as stated: once a run has returned,
\* the cache holds no ActionRecord and no output FileRecord of an action that
\* ended Failed, whatever made it fail and whatever was recorded before.
C10_InvalidationAnyCause ==
    pc = "returned" =>
        \A a \in Tracked :
            builds[a].kind = Failed => NoRecords(db, graph, a)

\* C10, as the code has it: an action recorded as Failed after world.execute
\* returned Failed has no ActionRecord and no output FileRecord in the cache;
\* an action recorded as Failed without having been executed (a declared
\* input is missing) has the records it had when the run began.
C10_InvalidationAfterExecute ==
    \A a \in Tracked :
        builds[a].kind = Failed =>
            IF a \in Range(exec_log)
            THEN NoRecords(db, graph, a)
            ELSE SameRecords(db, start_db, graph, a)

\* a run has returned in which an action, recorded in the cache by the run
\* before, was executed again and failed
C10_Witness ==
    /\ pc = "returned"
    /\ \E a \in Tracked :
           /\ builds[a].kind = Failed
           /\ a \in Range(exec_log)
           /\ ~NoRecords(start_db, graph, a)


InputsOf(g, id) == Range(PathsOf(g, g.nodes[id].ins))

\* how often world.execute has been invoked for the action in this run
ExecCount(id) == Cardinality({i \in 1..Len(exec_log) : exec_log[i] = id})

\* the task of the action is past stat_node and world.execute
PastExecute(id) == workers[id].pc \in {"commit", "send", "done"}

\* the cache holds a FileRecord of the action for every declared output
OutputRecordsPresent(d, g, id) ==
    \A p \in OutputsOf(g, id) :
        /\ get_file_info(d, p) # None
        /\ unwrap(get_file_info(d, p)).generated_by = BuildHashOf(g, id)

\* the action ended the previous run UpToDate or Succeeded and its record
\* was in the cache when this run began
SucceededBefore(a) ==
    /\ run_no > 1
    /\ a \in DOMAIN prev_builds
    /\ is_successful(prev_builds[a])
    /\ get_build_info(start_db, BuildHashOf(graph, a)) # None

\* when this run began every declared input of the action existed and one of
\* them had an mtime greater than the recorded last_start
InputTouched(a) ==
    /\ \A p \in InputsOf(graph, a) : exists(start_world, p)
    /\ \E p \in InputsOf(graph, a) :
           unwrap(mtime(start_world, p))
               > unwrap(get_build_info(start_db, BuildHashOf(graph, a))).last_start

\* C11 (input touched triggers rebuild): after a successful run of action A,
\* when a declared input of A has an mtime greater than A's recorded
\* last_start, the next run never finds A up to date: the task of A goes
\* through world.execute, A is executed exactly once by the time it is
\* finished, and once that execution has succeeded and is committed the
\* FileRecords of its outputs are present.
C11_TouchedInputRebuilds ==
    \A a \in Tracked :
        (SucceededBefore(a) /\ InputTouched(a)) =>
            /\ ExecCount(a) <= 1
            /\ PastExecute(a) => ExecCount(a) = 1
            /\ is_finished(builds[a].kind) => ExecCount(a) = 1
            /\ (workers[a].pc \in {"send", "done"}
                    /\ is_successful(workers[a].result)) =>
                   OutputRecordsPresent(db, graph, a)

\* the second run has returned, having executed once and with success an
\* action whose input was touched after the first run
C11_Witness ==
    /\ pc = "returned"
    /\ mutated
    /\ \E a \in Tracked :
           /\ SucceededBefore(a)
           /\ InputTouched(a)
           /\ ExecCount(a) = 1
           /\ builds[a].kind = Succeeded
           /\ OutputRecordsPresent(db, graph, a)


\* the task of the action is past stat_node
PastStat(id) == workers[id].pc \notin {"none", "queued"}

\* C12 (missing declared input is a hard failure), as stated: an action that
\* has been checked while one of its declared inputs did not exist, whatever
\* the position of that input in the list and whatever the cache held, is
\* not executed, has the result Failed, and no FileRecord of its outputs has
\* been written.  (No file is removed during a run, so an input that does not
\* exist now did not exist when the action was checked.)
C12_MissingInputNeverExecutes ==
    \A a \in DOMAIN workers :
        (PastStat(a) /\ \E p \in InputsOf(graph, a) : ~exists(world, p)) =>
            /\ ExecCount(a) = 0
            /\ workers[a].result = Failed
            /\ \A p \in OutputsOf(graph, a) :
                   get_file_info(db, p) = get_file_info(start_db, p)


\* in the given cache and world the action has an ActionRecord, every declared
\* input exists and is not newer than the recorded last_start, and a
\* declared output does not exist
OutputGone(d, w, a) ==
    /\ get_build_info(d, BuildHashOf(graph, a)) # None
    /\ \A p \in InputsOf(graph, a) :
           /\ exists(w, p)
           /\ mtime(w, p) # None
           /\ unwrap(mtime(w, p))
                  <= unwrap(get_build_info(d, BuildHashOf(graph, a))).last_start
    /\ \E p \in OutputsOf(graph, a) : ~exists(w, p)
    /\ \A p \in OutputsOf(graph, a) : p \notin w.unreadable

StartedBuilds == {b \in Tracked : builds[b].kind = Started}

C16_WantedSet ==
    ~build_started =>
        /\ Tracked = ReachOut(graph, Range(wanted))
        /\ \A b \in Tracked :
               /\ builds[b].kind = Fresh
               /\ builds[b].pending_inputs = Cardinality(DepsOf(graph, b))
        /\ Range(pending) = {b \in Tracked : DepsOf(graph, b) = {}}
        /\ Len(pending) = Cardinality(Range(pending))
        /\ \A ids \in WantArgs(graph) :
               LET r == want_internal(graph, ids, builds, pending)
               IN /\ affected_nodes(graph, ids, builds)
                         = Cardinality(DOMAIN r.builds \ Tracked)
                  /\ Range(ids) \subseteq Tracked =>
                         /\ affected_nodes(graph, ids, builds) = 0
                         /\ r.builds = builds
                         /\ r.pending = pending

\* before run, two overlapping requests have tracked a consumer together with
\* its dependencies, of which only the leaves are pending
C16_Witness ==
    /\ ~build_started
    /\ Cardinality(Range(wanted)) >= 2
    /\ \E b \in Tracked : Cardinality(DepsOf(graph, b)) >= 2
    /\ \E b \in Range(wanted) : DepsOf(graph, b) = {}
    /\ Cardinality(Range(pending)) < Cardinality(Tracked)


\* C17 as stated (want after run): a want call made after run has been invoked
\* returns to its caller with an AlreadyRunning error value, and leaves the
\* tracked set, the pending set and the counters unchanged.
C17_WantAfterRunReturnsError ==
    [][(pc = "returned" /\ build_started) =>
           /\ pc' = "returned"
           /\ UNCHANGED exec_vars]_vars

\* C17 (want after run): a want call made after run has been invoked panics,
\* so no value is returned to the caller; the panic precedes every access to
\* the executor, so the tracked set, the pending set, the counters and the
\* value run returned are unchanged.
C17_WantAfterRunPanics ==
    [][(pc = "returned" /\ build_started) =>
           /\ pc' = "want_panicked"
           /\ run_result' = run_result
           /\ UNCHANGED exec_vars]_vars

\* want has been called after a run that finished at least one action
C17_Witness ==
    /\ pc = "want_panicked"
    /\ build_started
    /\ finished > 0
    /\ Tracked # {}


\* the transitive closure of a relation given as a set of pairs
RECURSIVE TransitiveClosure(_)
TransitiveClosure(R) ==
    LET composed == R \cup {p \in {<<x[1], y[2]>> : x \in R, y \in R} :
                             \E x \in R : \E y \in R :
                                 /\ x[2] = y[1]
                                 /\ p = <<x[1], y[2]>>}
    IN IF composed = R THEN R ELSE TransitiveClosure(composed)

\* a directed cycle: some node reaches itself along one edge or more
HasDirectedCycle(edges) ==
    \E p \in TransitiveClosure(Range(edges)) : p[1] = p[2]

\* C18 (cycle check at freeze): GraphBuilder::build returns the cyclic-graph
\* error if and only if the edges added with add_build_dep contain a directed
\* cycle (a self-edge included); every graph build returns is acyclic.
C18_CycleCheckAtFreeze ==
    /\ pc = "build_err" <=> (pc # "building" /\ HasDirectedCycle(graph.edges))
    /\ pc = "built" => ~HasDirectedCycle(graph.edges)
    /\ pc = "building" =>
           (builder_build(graph) = "ContainsCycle" <=> HasDirectedCycle(graph.edges))

\* build has refused a graph whose only cycle is a self-edge added after an
\* edge between two other nodes
C18_Witness ==
    /\ pc = "build_err"
    /\ \E e \in Range(graph.edges) : e[1] = e[2]
    /\ \E e \in Range(graph.edges) : e[1] # e[2]
    /\ ~HasDirectedCycle(SelectSeq(graph.edges, LAMBDA e : e[1] # e[2]))


\* BuildGraph::lookup_build(id).is_some()
LookupBuildSucceeds(g, build_id) == build_id \in DOMAIN g.nodes

\* C19 as stated (unknown ids): add_build_dep called with a dependent or a
\* dependency that add_build of this builder has not returned adds no edge,
\* so lookup_build succeeds on every edge endpoint of a frozen graph.
C19_UnknownIdRejected ==
    /\ [][\A e \in Range(graph'.edges) \ Range(graph.edges) :
              /\ LookupBuildSucceeds(graph, e[1])
              /\ LookupBuildSucceeds(graph, e[2])]_vars
    /\ [](pc = "built" =>
              \A e \in Range(graph.edges) :
                  /\ LookupBuildSucceeds(graph, e[1])
                  /\ LookupBuildSucceeds(graph, e[2]))


\* the multiset of a sequence
BagOf(s) == [x \in Range(s) |-> Cardinality({i \in 1..Len(s) : s[i] = x})]

\* the declared input paths of a build and the output paths of its
\* dependencies, as a multiset
InputBag(g, b) ==
    BagOf(PathsOf(g, lookup_build(g, b).ins) \o DependencyOutputs(g, b))

\* the build of LayoutBase that the build `b` of the layout `g` is
SameBuild(g, b) ==
    CHOOSE r \in BuildIds(LayoutBase) :
        PathsOf(LayoutBase, lookup_build(LayoutBase, r).outs)
            = PathsOf(g, lookup_build(g, b).outs)

\* C20 (order independence): for a fixed multiset of declared input paths and
\* dependency output paths the digest of hash_input_set is the same whatever
\* the order of the action's ins, the order of its dependencies and the
\* FileId and BuildId numbers are; the digest stored with the ActionRecord is
\* that digest.
C20_OrderIndependent ==
    \A b \in BuildIds(graph) :
        /\ InputBag(graph, b) = InputBag(LayoutBase, SameBuild(graph, b))
        /\ hash_input_set(b, graph)
               = hash_input_set(SameBuild(graph, b), LayoutBase)
        /\ get_build_info(db, BuildHashOf(graph, b)) # None =>
               unwrap(get_build_info(db, BuildHashOf(graph, b))).input_set_digest
                   = hash_input_set(SameBuild(graph, b), LayoutBase)

\* the record of the consumer has been written in a layout in which its ins,
\* its dependencies, its BuildId and its FileIds all differ from LayoutBase
C20_Witness ==
    \E b \in BuildIds(graph) :
        LET r == SameBuild(graph, b)
        IN /\ Len(lookup_build(graph, b).ins) = 2
           /\ b # r
           /\ PathsOf(graph, lookup_build(graph, b).ins)
                  # PathsOf(LayoutBase, lookup_build(LayoutBase, r).ins)
           /\ DependencyOutputs(graph, b) # DependencyOutputs(LayoutBase, r)
           /\ lookup_build(graph, b).ins # lookup_build(LayoutBase, r).ins
           /\ graph.files # LayoutBase.files
           /\ get_build_info(db, BuildHashOf(graph, b)) # None


\* C21 (hash_build and the order of outputs): two builds with the same command
\* and the same set of two or more distinct output paths have the same
\* BuildHash when the paths are listed in the same order, whatever their
\* declared inputs and FileId numbers are, and different BuildHashes when the
\* paths are listed in different orders; the record of a run is stored under
\* the hash of the order the graph lists.
C21_OutputOrderSensitive ==
    \A b \in BuildIds(graph) :
        LET here == lookup_build(graph, b)
            base == lookup_build(GraphTwoOutputs, b)
            same_order == PathsOf(graph, here.outs) = PathsOf(GraphTwoOutputs, base.outs)
        IN /\ here.command = base.command
           /\ Range(PathsOf(graph, here.outs)) = Range(PathsOf(GraphTwoOutputs, base.outs))
           /\ same_order =>
                  hash_build(here, graph) = hash_build(base, GraphTwoOutputs)
           /\ ~same_order =>
                  /\ hash_build(here, graph) # hash_build(base, GraphTwoOutputs)
                  /\ get_build_info(db, hash_build(base, GraphTwoOutputs)) = None

\* the record of the two-output build has been written in a graph that lists
\* the outputs in the other order, declares another input and numbers the
\* files differently
C21_Witness ==
    \E b \in BuildIds(graph) :
        LET here == lookup_build(graph, b)
            base == lookup_build(GraphTwoOutputs, b)
        IN /\ Len(here.outs) = 2
           /\ PathsOf(graph, here.outs) # PathsOf(GraphTwoOutputs, base.outs)
           /\ PathsOf(graph, here.ins) # PathsOf(GraphTwoOutputs, base.ins)
           /\ here.outs # base.outs
           /\ get_build_info(db, hash_build(here, graph)) # None


\* C22 as stated (dropped writer): when a Writer is dropped without commit, a
\* Reader opened afterwards sees exactly the records that existed before
\* begin_write: every set_build_info, set_file_info, invalidate_build and
\* invalidate_file made through the Writer is discarded.
C22_DropDiscards ==
    pc = "db_dropped" =>
        /\ \A h \in DbHashes : get_build_info(db, h) = get_build_info(start_db, h)
        /\ \A p \in DbPaths : get_file_info(db, p) = get_file_info(start_db, p)


\* C23 (run-level I/O error): when the controller takes from the channel a
\* completion that carries an I/O error, it leaves the loop at once; from
\* then on it starts no action and changes no status or counter, and run
\* returns the error to its caller once every task that was spawned has
\* completed.
C23_IoErrorAbortsRun ==
    [][ /\ (pc = "recv" /\ pc' # "recv" /\ chan # <<>> /\ Head(chan).result = "Err") =>
               pc' = "join_err"
        /\ pc = "join_err" =>
               /\ pc' \in {"join_err", "returned"}
               /\ UNCHANGED exec_vars
               /\ \A b \in DOMAIN workers :
                      workers[b].pc = "none" => workers'[b].pc = "none"
               /\ pc' = "returned" =>
                      /\ run_result' = "Err"
                      /\ \A b \in StartedBuilds : workers[b].pc = "done" ]_vars

\* run has returned an I/O error after a task that was in flight when the
\* error was processed executed its command and completed; its completion
\* was never processed
C23_Witness ==
    /\ pc = "returned"
    /\ run_result = "Err"
    /\ \E a, b \in DOMAIN workers :
           /\ workers[a].pc = "done" /\ workers[a].result = "Err"
           /\ workers[b].pc = "done" /\ workers[b].result = Succeeded
           /\ b \in Range(exec_log)
           /\ builds[b].kind = Started


\* C24 as stated (independent branches continue): when a run in which an
\* action failed and no worker reported an I/O error has returned, every
\* tracked action that has not failed itself, is not a transitive consumer of
\* a failed action and whose direct dependencies all finished successfully
\* has been dispatched and is UpToDate or Succeeded.
C24_IndependentBranchesContinue ==
    ( /\ pc = "returned"
      /\ \E f \in Tracked : builds[f].kind = Failed
      /\ \A b \in DOMAIN workers : workers[b].result # "Err" ) =>
        \A b \in Tracked :
            ( /\ workers[b].result # Failed
              /\ builds[b].kind \notin {Failed, Skipped}
              /\ \A f \in Tracked :
                     builds[f].kind = Failed => b \notin TransitiveConsumers(graph, f)
              /\ \A d \in DepsOf(graph, b) : is_successful(builds[d].kind) ) =>
                /\ b \in Dispatched
                /\ builds[b].kind \in {UpToDate, Succeeded}


\* the positions of the progress log where `call` was made for action b
ProgressCalls(call, b) ==
    {i \in DOMAIN progress :
        progress[i].call = call /\ progress[i].id = b}

\* the actions whose command ended Failed in this run (the worker holds the
\* result once world.execute or stat_node produced it)
FailedInFlight ==
    {b \in DOMAIN workers :
        workers[b].pc \in {"commit", "send", "done"} /\ workers[b].result = Failed}

\* C25: once run has returned without an I/O error, every action that
\* finished Failed in the run has been reported by a build_finished call with
\* success = false, and every build_started call is followed by exactly one
\* build_finished call for the same action.
C25_FailuresReported ==
    (pc = "returned" /\ run_result = "Ok") =>
        /\ \A b \in FailedInFlight :
               \E i \in ProgressCalls("build_finished", b) :
                   progress[i].success = FALSE
        /\ \A b \in DOMAIN workers :
               \A i \in ProgressCalls("build_started", b) :
                   Cardinality({j \in ProgressCalls("build_finished", b) :
                                    j > i}) = 1


\* a worker of this run has ended Failed or with an I/O error
SomeFailure == \E w \in DOMAIN workers : workers[w].result \in {Failed, "Err"}

\* run() has been entered
RunEntered == pc \notin {"idle", "want_panicked"}

\* every direct dependency of b is tracked and of kind UpToDate or Succeeded
DepsSatisfied(b) ==
    \A d \in DepsOf(graph, b) :
        d \in Tracked /\ builds[d].kind \in {UpToDate, Succeeded}

\* C26 (scheduler liveness): in a run in which no action fails and no I/O
\* error occurs, with every worker running to its send, a state is eventually
\* reached in which every tracked action has been dispatched and is of kind
\* UpToDate or Succeeded; and an action is dispatched (Fresh -> Started) only
\* when every direct dependency of it is satisfied.
C26_SchedulerLiveness ==
    /\ RunEntered
           ~> (SomeFailure
               \/ \A b \in Tracked :
                      b \in Dispatched /\ builds[b].kind \in {UpToDate, Succeeded})
    /\ [][\A b \in Tracked :
              (builds[b].kind = Fresh /\ builds'[b].kind = Started) =>
                  DepsSatisfied(b)]_vars

\* a run without failure has returned with three actions successful, one of
\* them dispatched while another was in flight
C26_Witness ==
    /\ pc = "returned"
    /\ ~SomeFailure
    /\ Cardinality(Tracked) = 3
    /\ \A d \in Tracked : builds[d].kind \in {UpToDate, Succeeded}
    /\ \E i \in DOMAIN progress :
           /\ progress[i].call = "build_started"
           /\ progress[i].status.started > progress[i].status.done


\* a's worker executed the command and write_build has recorded the result
RecordedInRun(a) ==
    /\ a \in Range(exec_log)
    /\ workers[a].pc \in {"send", "done"}
    /\ CommitsRecord(workers[a].result)

\* b's worker executed the command, it failed, and invalidate_build has run
InvalidatedInRun(b) ==
    /\ b \in Range(exec_log)
    /\ workers[b].pc \in {"send", "done"}
    /\ workers[b].result = Failed

\* the ActionRecord of a and the FileRecords of a's outputs, as write_build
\* leaves them
RecordsOfBuildPresent(d, g, a) ==
    /\ get_build_info(d, BuildHashOf(g, a)) # None
    /\ unwrap(get_build_info(d, BuildHashOf(g, a))).input_set_digest
           = hash_input_set(a, g)
    /\ OutputRecordsPresent(d, g, a)

\* C27: when action b fails after its dependency a succeeded in the same run,
\* the ActionRecord of a and the FileRecords of a's outputs written in that
\* run are still present, during the rest of the run and after it; and the
\* commit of a failed result changes no ActionRecord but the one at the failing
\* action's hash and no FileRecord but those of its declared outputs.
C27_UpstreamRecordsIntact ==
    /\ [](\A b \in Tracked : \A a \in DepsOf(graph, b) :
              (InvalidatedInRun(b) /\ RecordedInRun(a)) =>
                  RecordsOfBuildPresent(db, graph, a))
    /\ [][\A b \in DOMAIN workers :
              (workers[b].pc = "commit" /\ workers'[b].pc = "send"
                   /\ ~CommitsRecord(workers[b].result)) =>
                  /\ \A h \in DOMAIN db.build_info \ {BuildHashOf(graph, b)} :
                         get_build_info(db', h) = get_build_info(db, h)
                  /\ \A p \in DOMAIN db.file_info \ OutputsOf(graph, b) :
                         get_file_info(db', p) = get_file_info(db, p)
                  /\ DOMAIN db'.build_info \subseteq DOMAIN db.build_info
                  /\ DOMAIN db'.file_info \subseteq DOMAIN db.file_info]_vars

\* the run has returned with b failed after its dependency a was recorded,
\* and the records of b are gone
C27_Witness ==
    /\ pc = "returned"
    /\ \E b \in Tracked : \E a \in DepsOf(graph, b) :
           /\ InvalidatedInRun(b)
           /\ RecordedInRun(a)
           /\ builds[b].kind = Failed
           /\ NoRecords(db, graph, b)
           /\ start_db = EmptyDb


\* the direct dependencies of b that are not tracked in a successful kind
UnsatisfiedDeps(b) ==
    {d \in DepsOf(graph, b) :
        ~(d \in Tracked /\ builds[d].kind \in {UpToDate, Succeeded})}

\* C28 (pending_inputs): whenever the controller is between two steps, every
\* tracked action has pending_inputs = 0 if and only if all its direct
\* dependencies are UpToDate or Succeeded; for an action that is not terminal
\* pending_inputs is the number of direct dependencies not yet successful;
\* and the counter never goes below zero.
C28_PendingInputs ==
    \A b \in Tracked :
        /\ builds[b].pending_inputs >= 0
        /\ builds[b].pending_inputs = 0 <=> UnsatisfiedDeps(b) = {}
        /\ ~is_finished(builds[b].kind) =>
               builds[b].pending_inputs = Cardinality(UnsatisfiedDeps(b))

\* a consumer of two dependencies waits for one of them while the other has
\* already succeeded
C28_Witness ==
    \E b \in Tracked :
        /\ Cardinality(DepsOf(graph, b)) = 2
        /\ builds[b].kind = Fresh
        /\ builds[b].pending_inputs = 1
        /\ Cardinality(UnsatisfiedDeps(b)) = 1


\* C29 (count conservation): before the run, at every step of the run loop and
\* after it, running + |pending| + finished is at most the number of tracked
\* actions.
C29_CountConservation ==
    running + Len(pending) + finished <= Cardinality(Tracked)

\* inside the loop one action is finished, one is in flight and one is
\* pending, and the three make up the tracked set
C29_Witness ==
    /\ pc = "loop"
    /\ running >= 1
    /\ Len(pending) >= 1
    /\ finished >= 1
    /\ running + Len(pending) + finished = Cardinality(Tracked)


\* the number of tracked actions of bs whose kind is in kinds
CountKinds(bs, kinds) == Cardinality({b \in DOMAIN bs : bs[b].kind \in kinds})

\* the snapshot that the kinds of bs determine
SnapshotOfKinds(bs) ==
    [total |-> Cardinality(DOMAIN bs),
     started |-> CountKinds(bs, {Started})
                     + CountKinds(bs, {UpToDate, Succeeded, Failed, Skipped}),
     done |-> CountKinds(bs, {UpToDate, Succeeded, Failed, Skipped}),
     failed |-> CountKinds(bs, {Failed, Skipped})]

C31_NoStartAfterFailure ==
    [][failed > 0 =>
           /\ \A b \in Tracked :
                  builds[b].kind = Fresh => builds'[b].kind = Fresh
           /\ \A b \in DOMAIN workers :
                  workers[b].pc = "none" => workers'[b].pc = "none"]_vars

\* the run has returned after the failure of the independent leaf, with the
\* dependency of a Fresh action completed by its worker
C31_Witness ==
    /\ pc = "returned"
    /\ failed > 0
    /\ \E b \in Tracked :
           /\ builds[b].kind = Fresh
           /\ \A d \in DepsOf(graph, b) :
                  workers[d].pc = "done" /\ workers[d].result = Succeeded


\* C32, as the claim states it: the action a drain step dispatches is the one
\* that was inserted into pending first.
C32_InsertionOrder ==
    [][Len(pending') < Len(pending) =>
           builds'[pending[1]].kind = Started]_vars

\* C32, as the code has it: the action a drain step dispatches is the one
\* inserted into pending last; those inserted before it stay, in their order.
C32_LastInsertedFirst ==
    [][Len(pending') < Len(pending) =>
           /\ builds[pending[Len(pending)]].kind = Fresh
           /\ builds'[pending[Len(pending)]].kind = Started
           /\ pending' = SubSeq(pending, 1, Len(pending) - 1)
           /\ \A i \in 1..Len(pending') : builds'[pending'[i]].kind = Fresh]_vars

\* in the first drain of a run one of two pending actions has been dispatched
\* and the other is still pending
C32_Witness ==
    /\ pc = "loop"
    /\ Len(pending) = 1
    /\ running = 1
    /\ finished = 0
    /\ Len(wanted) = 2


\* the ActionRecord of id exists and nothing but the input set can make
\* stat_node answer Outdated: every declared input exists, is readable and is
\* not newer than last_start; every declared output exists, is readable and has
\* a FileRecord generated by this action that is not older than the file
RecordFresh(d, w, g, id) ==
    LET build_info == get_build_info(d, BuildHashOf(g, id))
    IN /\ build_info # None
       /\ \A p \in InputsOf(g, id) :
              /\ exists(w, p)
              /\ mtime(w, p) # None
              /\ unwrap(mtime(w, p)) <= unwrap(build_info).last_start
       /\ \A p \in OutputsOf(g, id) :
              /\ exists(w, p)
              /\ mtime(w, p) # None
              /\ get_file_info(d, p) # None
              /\ unwrap(get_file_info(d, p)).generated_by = BuildHashOf(g, id)
              /\ unwrap(mtime(w, p)) <= unwrap(get_file_info(d, p)).last_seen

\* the digest recorded for id
RecordedDigest(d, g, id) ==
    unwrap(get_build_info(d, BuildHashOf(g, id))).input_set_digest

\* C33 (input-set change): when the task of an action whose record is fresh
\* in every other respect runs stat_node, a recorded input_set_digest that
\* differs from the current hash_input_set sends the action to world.execute,
\* and an equal digest (no additional inputs being recorded) makes it UpToDate
\* without execution.
C33_InputSetChangeRebuilds ==
    [][\A id \in DOMAIN workers :
           (workers[id].pc = "queued" /\ workers'[id].pc # "queued"
                /\ RecordFresh(db, world, graph, id)) =>
               IF RecordedDigest(db, graph, id) # hash_input_set(id, graph)
               THEN workers'[id] = Worker("execute", "none")
               ELSE workers'[id] = Worker("send", UpToDate)]_vars

\* the action has been executed again in a build whose graph gave it another
\* input set, although its record was fresh when the run began
C33_Witness ==
    /\ run_no >= 2
    /\ 1 \in Range(exec_log)
    /\ RecordFresh(start_db, start_world, graph, 1)
    /\ RecordedDigest(start_db, graph, 1) # hash_input_set(1, graph)


\* what stat_node answers for id in the current state
StatKindOf(id) ==
    stat_node(db, world, graph, lookup_build(graph, id), BuildHashOf(graph, id),
              hash_input_set(id, graph)).kind

\* the task of id found it up to date and did not execute it
UpToDateByStat(id) ==
    /\ workers[id].pc \in {"send", "done"}
    /\ workers[id].result = UpToDate
    /\ id \notin Range(exec_log)

\* C34: an action that stat_node finds UpToDate is not executed and its
\* processing changes nothing: the stat step, the send and the controller's
\* handling of the completion leave the world, the execution log and every
\* ActionRecord and FileRecord as they were, and the records of the action
\* (last_start and last_seen included) are those the run began with.
C34_UpToDateNoSideEffects ==
    /\ [](\A id \in DOMAIN workers :
              UpToDateByStat(id) => SameRecords(db, start_db, graph, id))
    /\ [][\A id \in DOMAIN workers :
              /\ (workers[id].pc = "queued" /\ workers'[id].pc # "queued"
                      /\ StatKindOf(id) = "UpToDate") =>
                     /\ workers'[id] = Worker("send", UpToDate)
                     /\ db' = db /\ world' = world /\ exec_log' = exec_log
              /\ (UpToDateByStat(id) /\ workers'[id].pc # workers[id].pc
                      /\ workers[id].pc = "send") =>
                     /\ workers'[id] = Worker("done", UpToDate)
                     /\ db' = db /\ world' = world /\ exec_log' = exec_log
              /\ (UpToDateByStat(id) /\ pc = "recv" /\ pc' # "recv"
                      /\ chan # <<>> /\ Head(chan).id = id) =>
                     /\ builds'[id].kind = UpToDate
                     /\ db' = db /\ world' = world /\ exec_log' = exec_log]_vars

\* a later run has returned with an action found up to date and counted, and
\* a cache that is not empty
C34_Witness ==
    /\ run_no >= 2
    /\ pc = "returned"
    /\ \E id \in Tracked :
           /\ UpToDateByStat(id)
           /\ builds[id].kind = UpToDate
           /\ get_build_info(db, BuildHashOf(graph, id)) # None
    /\ db = start_db


\* the outputs of b that its execution in this run has written: the clock had
\* not reached their modification time when the run began
WrittenInRun(b) ==
    {p \in OutputsOf(graph, b) :
        exists(world, p) /\ world.files[p] > now(start_world)}

\* C35: the last_start recorded for an executed action was taken no later
\* than the moment world.execute was invoked for it; whatever was modified
\* while the action was executing, the outputs it wrote among them, is
\* therefore newer than last_start.
C35_LastStartBeforeExecute ==
    \A b \in Tracked :
        RecordedInRun(b) =>
            \A p \in WrittenInRun(b) :
                unwrap(get_build_info(db, BuildHashOf(graph, b))).last_start
                    < world.files[p]

\* DbInner as the last finished write transaction left it
CommittedDb == IF Writers(workers) = {} THEN db ELSE start_db

\* what the Reader of task t returned is what the cache c holds
ReadsMatch(t, c) ==
    LET r == workers[t].result
    IN /\ r.calls >= 1 => r.seen_build = get_build_info(c, TxnHash(r.build))
       /\ \A j \in 1..Len(r.seen_files) :
              r.seen_files[j] = get_file_info(c, TxnOuts(r.build)[j])

\* the Reader of task t has read the record of its build and of every output
ReadComplete(t) ==
    /\ t \in Readers(workers)
    /\ workers[t].result.calls = Len(TxnOuts(workers[t].result.build)) + 1

\* C36: with several tasks reading and writing the in-memory cache, at most
\* one write transaction is open at a time, every value a read transaction
\* returns is that of the cache as the last finished write_build or
\* invalidate_build left it, and a read transaction that has read a build and
\* all its outputs saw either the build record with the file record of every
\* output written by the same write_build, or none of them.
C36_AtomicCommit ==
    /\ Cardinality(Writers(workers)) <= 1
    /\ \A t \in Readers(workers) : ReadsMatch(t, CommittedDb)
    /\ \A t \in Readers(workers) :
           ReadComplete(t) =>
               LET r == workers[t].result
               IN IF r.seen_build = None
                  THEN \A j \in 1..Len(r.seen_files) : r.seen_files[j] = None
                  ELSE \A j \in 1..Len(r.seen_files) :
                           /\ r.seen_files[j] # None
                           /\ unwrap(r.seen_files[j]).generated_by = TxnHash(r.build)
                           /\ unwrap(r.seen_files[j]).last_seen
                                  = unwrap(r.seen_build).last_start

\* two read transactions are open together, one of them has read the record
\* of the two-output build and of both outputs as a later write_build left
\* them, and the other is about the same build
C36_Witness ==
    \E t1, t2 \in Readers(workers) :
        /\ t1 # t2
        /\ ReadComplete(t1)
        /\ Len(workers[t1].result.seen_files) = 2
        /\ workers[t2].result.build = workers[t1].result.build
        /\ workers[t1].result.seen_build # None
        /\ unwrap(workers[t1].result.seen_build).last_start >= 1

\* what the claim lists of a build: the method kind with the executable and
\* the arguments or the callback name, and the output paths in order
CommandKey(g, id) ==
    <<lookup_build(g, id).command, PathsOf(g, lookup_build(g, id).outs)>>

\* C37: two builds that differ in method kind, executable, argument list,
\* callback name or ordered output path list are given different byte
\* sequences by hash_build, so once both are recorded each has a cache record
\* of its own.
C37_HashInjective ==
    (pc = "hashing" /\ \A id \in BuildIds(graph) : workers[id].pc = "done") =>
        \A i \in BuildIds(graph) : \A j \in BuildIds(graph) :
            CommandKey(graph, i) # CommandKey(graph, j) =>
                /\ workers[i].result # workers[j].result
                /\ Cardinality(DOMAIN db.build_info) = Len(graph.nodes)

\* how often build b is queued in pending
PendingCount(b) == Cardinality({i \in DOMAIN pending : pending[i] = b})

\* C38: in one run every tracked build is dispatched at most once: it is
\* queued in pending at most once and only while Fresh, start_build is
\* reported for it at most once, world.execute is invoked for it at most
\* once, a build that has left Fresh never becomes Fresh again, and a build
\* whose task was spawned is never handed to the pool again.
C38_DispatchedOnce ==
    /\ [](\A b \in Tracked :
              /\ Cardinality(ProgressCalls("build_started", b)) <= 1
              /\ ExecCount(b) <= 1
              /\ PendingCount(b) <= 1
              /\ PendingCount(b) = 1 => builds[b].kind = Fresh)
    /\ [][\A b \in Tracked :
              /\ builds[b].kind # Fresh => builds'[b].kind # Fresh
              /\ workers[b].pc \notin {"none", "queued"} =>
                     workers'[b].pc # "queued"
              /\ (builds[b].kind = Fresh /\ builds'[b].kind # Fresh) =>
                     (builds'[b].kind = Started =>
                          /\ workers[b].pc = "none"
                          /\ workers'[b].pc = "queued")]_vars

\* the run of the join graph has returned, each of the three builds was
\* executed once, and the second leaf finished before the first
C38_Witness ==
    /\ graph = GraphJoin
    /\ pc = "returned"
    /\ \A b \in BuildIds(graph) :
           /\ ExecCount(b) = 1
           /\ Cardinality(ProgressCalls("build_started", b)) = 1
    /\ \E i \in ProgressCalls("build_finished", 2) :
           \E j \in ProgressCalls("build_finished", 1) : i < j

\* the kinds a finished, successful build has
SuccessKinds == {UpToDate, Succeeded}

\* C39: in a run over an acyclic graph the controller never panics on a
\* broken invariant: when the loop has drained pending and does not exit,
\* some build is running; every completion waiting in the channel carries a
\* finished status, or an error, for a build that is still Started; a build
\* whose successful completion is waiting has no tracked direct dependent
\* that is already UpToDate or Succeeded; and a tracked build is successful
\* only after every tracked dependency of it is.
C39_NoControllerPanic ==
    /\ pc # "panicked"
    /\ (pc = "loop" /\ pending = <<>>
            /\ ~LoopExit(finished, Cardinality(Tracked), failed)) => running > 0
    /\ \A i \in DOMAIN chan :
           /\ chan[i].result = "Err" \/ is_finished(chan[i].result)
           /\ chan[i].id \in Tracked
           /\ builds[chan[i].id].kind = Started
           /\ chan[i].result \in SuccessKinds =>
                  \A e \in Range(build_dependents(graph, chan[i].id)) :
                      e[1] \in Tracked => builds[e[1]].kind \notin SuccessKinds
    /\ \A b \in Tracked :
           builds[b].kind \in SuccessKinds =>
               \A e \in Range(build_dependencies(graph, b)) :
                   e[2] \in Tracked => builds[e[2]].kind \in SuccessKinds

\* the controller is about to receive the successful completion of a build
\* that has a tracked direct dependent waiting for this input only, after
\* another build has already finished
C39_Witness ==
    /\ pc = "recv"
    /\ chan # <<>>
    /\ finished >= 1
    /\ Head(chan).result \in SuccessKinds
    /\ \E e \in Range(build_dependents(graph, Head(chan).id)) :
           /\ e[1] \in Tracked
           /\ builds[e[1]].kind = Fresh
           /\ builds[e[1]].pending_inputs = 1

\* the tasks start_build has spawned that have not run to their end
Unfinished == {b \in DOMAIN workers : workers[b].pc \notin {"none", "done"}}

\* C40: with every spawned task running to its send, a run that was entered
\* returns; when it has returned, every task it spawned has finished; and a
\* run with no tracked build returns Ok(()) with no build started, no task
\* spawned and nothing executed.
C40_Termination ==
    /\ RunEntered ~> pc = "returned"
    /\ [](pc = "returned" => Unfinished = {})
    /\ []((RunEntered /\ Tracked = {}) =>
              /\ pc \in {"loop", "join_ok", "returned"}
              /\ pc = "returned" => run_result = "Ok"
              /\ Dispatched = {}
              /\ exec_log = <<>>
              /\ \A i \in DOMAIN progress : progress[i].call \in {"prepare", "finish"})

\* a run has returned after a failure with a tracked build never started,
\* and the two tasks it had spawned have both finished
C40_Witness ==
    /\ pc = "returned"
    /\ failed > 0
    /\ Cardinality(Dispatched) >= 2
    /\ \E b \in Tracked : builds[b].kind = Fresh
    /\ \A b \in Dispatched : workers[b].pc = "done"


====
